---- MODULE Spec2Model ----
(***************************************************************************)
(* Model of open-craft: the in-memory game state (elements, recipes,      *)
(* discovered list, impossibility list), the combination resolver, the    *)
(* untried-combination enumerator, the progress files, and the three      *)
(* front-ends (terminal loop, Telegram bot, HTTP /combine handler).        *)
(* Go strings are TLA+ strings, taken apart character by character, so    *)
(* that concatenation, splitting, trimming, lower-casing and sorting are  *)
(* computed as the code computes them.                                     *)
(***************************************************************************)
EXTENDS Integers, Sequences, FiniteSets, TLC

\* ------------------------------------------------------------------ bounds
MaxUsers == 1

\* How many of the orders in which a map can be iterated are tried.
MaxMapOrders == 2

\* The chat identities of the bot taken alone with several chats.
MaxChats == 2

\* How many updates and HTTP requests can be taken and not yet answered.
MaxInFlight == 2

\* The longest name normalization is tried on, character by character.
MaxNameLen == 3

\* ----------------------------------------------------------------- strings
\* The characters of the model in byte order: tab, space, '+', '-', A-Z, a-z.
Chars ==
  << "\t", " ", "+", "-",
     "A", "B", "C", "D", "E", "F", "G", "H", "I", "J", "K", "L", "M",
     "N", "O", "P", "Q", "R", "S", "T", "U", "V", "W", "X", "Y", "Z",
     "a", "b", "c", "d", "e", "f", "g", "h", "i", "j", "k", "l", "m",
     "n", "o", "p", "q", "r", "s", "t", "u", "v", "w", "x", "y", "z" >>

CharSet == {Chars[i] : i \in 1..Len(Chars)}

\* The position of every character in the byte order.
CodeOf == [c \in CharSet |-> CHOOSE i \in 1..Len(Chars) : Chars[i] = c]

UpperChars == {Chars[i] : i \in 5..30}

LowerOf == [c \in UpperChars |-> Chars[CodeOf[c] + 26]]

First(s) == SubSeq(s, 1, 1)

Rest(s) == SubSeq(s, 2, Len(s))

IsSpaceChar(c) == c \in {"\t", " "}

ToLowerChar(c) == IF c \in UpperChars THEN LowerOf[c] ELSE c

RECURSIVE ToLower(_)
ToLower(s) == IF s = "" THEN "" ELSE ToLowerChar(First(s)) \o ToLower(Rest(s))

RECURSIVE TrimLeft(_)
TrimLeft(s) ==
  IF s # "" /\ IsSpaceChar(First(s)) THEN TrimLeft(Rest(s)) ELSE s

RECURSIVE TrimRight(_)
TrimRight(s) ==
  IF s # "" /\ IsSpaceChar(SubSeq(s, Len(s), Len(s)))
    THEN TrimRight(SubSeq(s, 1, Len(s) - 1))
    ELSE s

TrimSpace(s) == TrimRight(TrimLeft(s))

\* strings.ReplaceAll(name, " ", "-")
RECURSIVE ReplaceSpaces(_)
ReplaceSpaces(s) ==
  IF s = "" THEN ""
  ELSE (IF First(s) = " " THEN "-" ELSE First(s)) \o ReplaceSpaces(Rest(s))

\* Byte-wise lexicographic order of Go strings (s < t).
RECURSIVE StrLess(_, _)
StrLess(s, t) ==
  IF t = "" THEN FALSE
  ELSE IF s = "" THEN TRUE
  ELSE IF First(s) # First(t) THEN CodeOf[First(s)] < CodeOf[First(t)]
  ELSE StrLess(Rest(s), Rest(t))

\* sort.Strings, as an insertion sort of a list.
RECURSIVE InsertSorted(_, _)
InsertSorted(x, sorted) ==
  IF sorted = <<>> THEN <<x>>
  ELSE IF StrLess(Head(sorted), x)
    THEN <<Head(sorted)>> \o InsertSorted(x, Tail(sorted))
    ELSE <<x>> \o sorted

RECURSIVE SortStrings(_)
SortStrings(list) ==
  IF list = <<>> THEN <<>>
  ELSE InsertSorted(Head(list), SortStrings(Tail(list)))

\* strings.Split(s, "+"): the list of the parts between the '+' characters.
RECURSIVE SplitPlus(_)
SplitPlus(s) ==
  LET plus == {i \in 1..Len(s) : SubSeq(s, i, i) = "+"}
  IN IF plus = {} THEN <<s>>
     ELSE LET p == CHOOSE i \in plus : \A j \in plus : i <= j
          IN <<SubSeq(s, 1, p - 1)>> \o SplitPlus(SubSeq(s, p + 1, Len(s)))

\* slices.Contains
Contains(list, x) == \E i \in 1..Len(list) : list[i] = x

Range(list) == {list[i] : i \in 1..Len(list)}

\* The list taken from position k on, wrapping around.
Rotate(list, k) ==
  [i \in 1..Len(list) |-> list[((i + k - 2) % Len(list)) + 1]]

\* elem1 + "+" + elem2
ComboKey(elem1, elem2) == elem1 \o "+" \o elem2

\* A seed list with one element written twice and one left out.
Bootstrap_Repeated == <<"water", "fire", "earth", "earth">>

\* The list that seeds an empty ledger.
Bootstrap == <<"water", "fire", "earth", "wind">>

BootstrapSet == Range(Bootstrap)

\* ------------------------------------------------------------ data files
Elem(name, category) == [Name |-> name, Category |-> category]

\* A data document is either decodable (ok, with its value v) or not
\* (missing or malformed).
Good(v) == [ok |-> TRUE, v |-> v]

Bad == [ok |-> FALSE, v |-> <<>>]

StdElements ==
  ("water" :> Elem("Water", "Primordial")) @@
  ("fire" :> Elem("Fire", "Primordial")) @@
  ("earth" :> Elem("Earth", "Primordial")) @@
  ("wind" :> Elem("Wind", "Primordial")) @@
  ("steam" :> Elem("Steam", "Atmospheric")) @@
  ("hot-mud" :> Elem("Hot Mud", "Natural"))

\* One direction stored per pair; "water+fire" is stored in the order that
\* is not the sorted one, "earth+water" in the sorted one.
StdRecipes ==
  ("water+fire" :> "steam") @@
  ("earth+water" :> "hot-mud") @@
  ("steam+earth" :> "hot-mud")

StdImpossible == <<"fire+wind", "wind+water">>

\* Both directions stored, with different results.
TwoWayRecipes == ("water+fire" :> "steam") @@ ("fire+water" :> "hot-mud")

\* Both directions stored, with the same result.
TwoWaySameRecipes == ("water+fire" :> "steam") @@ ("fire+water" :> "steam")

AbcElements ==
  ("a" :> Elem("A", "Natural")) @@
  ("b" :> Elem("B", "Natural")) @@
  ("c" :> Elem("C", "Natural"))

AbcRecipes == ("a+b" :> "d")

AbcImpossible == <<"a+c">>

DataDir(elements, recipes, impossible) ==
  [elements |-> elements, recipes |-> recipes, impossible |-> impossible]

StdData == DataDir(Good(StdElements), Good(StdRecipes), Good(StdImpossible))

TwoWayData ==
  DataDir(Good(StdElements), Good(TwoWayRecipes), Good(StdImpossible))

TwoWaySameData ==
  DataDir(Good(StdElements), Good(TwoWaySameRecipes), Good(<<>>))

AbcData == DataDir(Good(AbcElements), Good(AbcRecipes), Good(AbcImpossible))

\* A recipe whose result is the empty string.
EmptyResultData ==
  DataDir(Good(AbcElements), Good(("a+b" :> "")), Good(AbcImpossible))

\* data/ with one document missing or malformed.
BadDataDirs ==
  { DataDir(Bad, Good(StdRecipes), Good(StdImpossible)),
    DataDir(Good(StdElements), Bad, Good(StdImpossible)),
    DataDir(Good(StdElements), Good(StdRecipes), Bad) }

\* ---------------------------------------------------------- progress files
JsonString(s) == [t |-> "string", s |-> s]

JsonNumber == [t |-> "number", s |-> ""]

JsonArray(items) == [kind |-> "array", items |-> items]

\* A document that is not valid JSON (also: an empty or truncated file).
JsonInvalid == [kind |-> "invalid", items |-> <<>>]

\* Valid JSON that is neither an array nor null (an object, a number, ...).
JsonOther == [kind |-> "other", items |-> <<>>]

FileOf(doc) == [status |-> "ok", doc |-> doc]

NoFile == [status |-> "missing", doc |-> JsonInvalid]

\* json.MarshalIndent(gs.Discovered, "", "  ")
MarshalIndent(list) ==
  JsonArray([i \in 1..Len(list) |-> JsonString(list[i])])

\* json.Unmarshal(data, &gameState.Discovered), the error dropped: a JSON
\* array replaces the list, an entry that is not a string decoding to "";
\* null gives the empty list; anything else leaves the list as it was.
Unmarshal(doc, dst) ==
  CASE doc.kind = "array" ->
         [i \in 1..Len(doc.items) |->
            IF doc.items[i].t = "string" THEN doc.items[i].s ELSE ""]
    [] doc.kind = "null" -> <<>>
    [] OTHER -> dst

\* os.WriteFile: how is "ok", "fail" (nothing written) or "trunc" (the file
\* was opened and truncated, then the write failed).
WriteFile(file, doc, how) ==
  CASE how = "ok" -> FileOf(doc)
    [] how = "trunc" -> FileOf(JsonInvalid)
    [] OTHER -> file

\* What the environment does to one operation: whether the config directory
\* resolves (for the load and for the save) and how the write goes.
Envs == [path : BOOLEAN, spath : BOOLEAN, write : {"ok", "fail", "trunc"}]

\* The environments of an operation that saves nothing (what a save would
\* meet is left out of the choice).
ReadEnvs == {env \in Envs : env.spath /\ env.write = "ok"}

\* The environments of an operation that only saves.
SaveEnvs == {env \in Envs : env.path}

SavedList == <<"water", "fire", "earth", "wind", "steam">>

\* A progress file that exists and cannot be read.
UnreadableFile == [status |-> "unreadable", doc |-> MarshalIndent(SavedList)]

\* Contents the progress file of one identity can have when the process
\* starts.
ProgressFiles ==
  { NoFile,
    UnreadableFile,
    FileOf(JsonInvalid),
    FileOf(JsonOther),
    FileOf(JsonArray(<<>>)),
    FileOf(MarshalIndent(SavedList)),
    FileOf(MarshalIndent(<<"steam">>)),
    FileOf(JsonArray(<<JsonString("water"), JsonNumber>>)) }

Scenario(d, file) == [data |-> d, file |-> file]

\* The data directory and the local progress file a process can start with.
Scenarios ==
  {Scenario(StdData, file) : file \in ProgressFiles} \cup
  {Scenario(TwoWayData, file) :
     file \in {NoFile, FileOf(MarshalIndent(SavedList))}} \cup
  {Scenario(TwoWaySameData, NoFile)} \cup
  {Scenario(AbcData, NoFile)} \cup
  {Scenario(d, NoFile) : d \in BadDataDirs}

\* -------------------------------------------------------------- GameState
GameStateOf(elements, recipes, discovered, impossible) ==
  [Elements |-> elements, Recipes |-> recipes,
   Discovered |-> discovered, Impossible |-> impossible]

\* The value of the gameState variable while no game state is loaded.
NoGameState == GameStateOf(<<>>, <<>>, <<>>, <<>>)

\* gs.Elements[id]: the zero Element when the key is absent.
ElementAt(gs, id) ==
  IF id \in DOMAIN gs.Elements THEN gs.Elements[id] ELSE Elem("", "")

\* A membership test that always succeeds.
isDiscovered_Always(gs, element) == TRUE

isDiscovered(gs, element) == Contains(gs.Discovered, element)

\* An append without the membership test.
addDiscovered_Always(gs, element) ==
  [gs EXCEPT !.Discovered = Append(gs.Discovered, element)]

addDiscovered(gs, element) ==
  IF ~isDiscovered(gs, element)
    THEN [gs EXCEPT !.Discovered = Append(gs.Discovered, element)]
    ELSE gs

\* The name trimmed and dashed, in the letter case it was typed in.
normalizeElementName_NoLower(name) == ReplaceSpaces(TrimSpace(name))

normalizeElementName(name) == ReplaceSpaces(ToLower(TrimSpace(name)))

\* The result returned without being added to the discovered list.
combineElements_NoAdd(gs, elem1, elem2) ==
  LET combo1 == ComboKey(elem1, elem2)
      combo2 == ComboKey(elem2, elem1)
  IN IF combo1 \in DOMAIN gs.Recipes
       THEN [result |-> gs.Recipes[combo1], gs |-> gs]
     ELSE IF combo2 \in DOMAIN gs.Recipes
       THEN [result |-> gs.Recipes[combo2], gs |-> gs]
     ELSE [result |-> "", gs |-> gs]

\* The second lookup without its "exists" test: a missing key reads as "".
combineElements_NoExistsTest(gs, elem1, elem2) ==
  LET combo1 == ComboKey(elem1, elem2)
      combo2 == ComboKey(elem2, elem1)
      result2 == IF combo2 \in DOMAIN gs.Recipes THEN gs.Recipes[combo2]
                 ELSE ""
  IN IF combo1 \in DOMAIN gs.Recipes
       THEN [result |-> gs.Recipes[combo1],
             gs |-> addDiscovered(gs, gs.Recipes[combo1])]
     ELSE [result |-> result2, gs |-> addDiscovered(gs, result2)]

\* The lookup of elem1+elem2 alone.
combineElements_ForwardOnly(gs, elem1, elem2) ==
  LET combo1 == ComboKey(elem1, elem2)
  IN IF combo1 \in DOMAIN gs.Recipes
       THEN [result |-> gs.Recipes[combo1],
             gs |-> addDiscovered(gs, gs.Recipes[combo1])]
     ELSE [result |-> "", gs |-> gs]

\* The result ("" when there is no recipe) and the game state afterwards.
combineElements(gs, elem1, elem2) ==
  LET combo1 == ComboKey(elem1, elem2)
      combo2 == ComboKey(elem2, elem1)
  IN IF combo1 \in DOMAIN gs.Recipes
       THEN [result |-> gs.Recipes[combo1],
             gs |-> addDiscovered(gs, gs.Recipes[combo1])]
     ELSE IF combo2 \in DOMAIN gs.Recipes
       THEN [result |-> gs.Recipes[combo2],
             gs |-> addDiscovered(gs, gs.Recipes[combo2])]
     ELSE [result |-> "", gs |-> gs]

\* The test of the combo as given alone.
isImpossible_ForwardOnly(gs, combo) == Contains(gs.Impossible, combo)

isImpossible(gs, combo) ==
  LET elements == SplitPlus(combo)
      reverse == ComboKey(elements[2], elements[1])
  IN Contains(gs.Impossible, combo) \/ Contains(gs.Impossible, reverse)

\* fmt.Sprintf("%s + %s", name1, name2)
ComboText(name1, name2) == name1 \o " + " \o name2

\* The two loops of getUntriedCombos from position (i, j) on.
RECURSIVE UntriedFrom(_, _, _, _)
UntriedFrom(gs, allElements, i, j) ==
  IF i > Len(allElements) THEN <<>>
  ELSE IF j > Len(allElements) THEN UntriedFrom(gs, allElements, i + 1, i + 1)
  ELSE LET elem1 == allElements[i]
           elem2 == allElements[j]
           combo1 == ComboKey(elem1, elem2)
           combo2 == ComboKey(elem2, elem1)
           rest == UntriedFrom(gs, allElements, i, j + 1)
       IN IF combo1 \in DOMAIN gs.Recipes THEN rest
          ELSE IF combo2 \in DOMAIN gs.Recipes THEN rest
          ELSE IF isImpossible(gs, combo1) THEN rest
          ELSE <<ComboText(gs.Elements[elem1].Name, gs.Elements[elem2].Name)>>
                 \o rest

\* The enumeration with the sort.Strings call left out.
getUntriedCombos_Unsorted(gs, mapOrder) ==
  UntriedFrom(gs, mapOrder, 1, 1)

\* mapOrder is the order in which the range over gs.Elements yields the keys.
getUntriedCombos(gs, mapOrder) ==
  UntriedFrom(gs, SortStrings(mapOrder), 1, 1)

\* The result of a save: whether it returned an error, and the file after it.
saveLocalProgress(gs, file, env) ==
  IF ~env.spath THEN [err |-> TRUE, file |-> file]
  ELSE [err |-> env.write # "ok",
        file |-> WriteFile(file, MarshalIndent(gs.Discovered), env.write)]

\* A save that leaves the write for later.
saveTelegramProgress_Deferred(gs, file, env) == [err |-> FALSE, file |-> file]

saveTelegramProgress(gs, file, env) ==
  IF ~env.spath THEN [err |-> TRUE, file |-> file]
  ELSE [err |-> env.write # "ok",
        file |-> WriteFile(file, MarshalIndent(gs.Discovered), env.write)]

\* The progress list read at load: the decoded file, or the empty list when
\* the file cannot be read.
ReadDiscovered(file) ==
  IF file.status = "ok" THEN Unmarshal(file.doc, <<>>) ELSE <<>>

\* The error getConfigDir returns when the directory cannot be made.
ErrConfigDir == "failed to create config directory"

\* A load that seeds the list whatever the progress file held.
loadGameState_AlwaysSeeds(dev, data_, file, env) ==
  LET failed(err) == [err |-> err, gs |-> NoGameState, file |-> file,
                      saved |-> FALSE, saveErr |-> FALSE]
      seeded == GameStateOf(data_.elements.v, data_.recipes.v, Bootstrap,
                            data_.impossible.v)
      save == saveLocalProgress(seeded, file, env)
  IN IF ~data_.elements.ok THEN failed("failed to load elements")
     ELSE IF ~data_.recipes.ok THEN failed("failed to load recipes")
     ELSE IF ~data_.impossible.ok THEN failed("failed to load impossible")
     ELSE IF ~env.path THEN failed(ErrConfigDir)
     ELSE [err |-> "", gs |-> seeded, file |-> save.file,
           saved |-> TRUE, saveErr |-> save.err]

\* loadGameState(dev): err ("" for nil), the game state, the progress file
\* afterwards, and whether the seeding save ran and failed. The three
\* documents come from data/ on disk (dev) or from the embedded copy.
loadGameState(dev, data_, file, env) ==
  LET failed(err) == [err |-> err, gs |-> NoGameState, file |-> file,
                      saved |-> FALSE, saveErr |-> FALSE]
      read == ReadDiscovered(file)
      loaded == GameStateOf(data_.elements.v, data_.recipes.v, read,
                            data_.impossible.v)
      seeded == [loaded EXCEPT !.Discovered = Bootstrap]
      save == saveLocalProgress(seeded, file, env)
  IN IF ~data_.elements.ok THEN failed("failed to load elements")
     ELSE IF ~data_.recipes.ok THEN failed("failed to load recipes")
     ELSE IF ~data_.impossible.ok
       THEN failed(IF dev THEN "failed to load impossible"
                   ELSE "failed to load impossible elements")
     ELSE IF ~env.path THEN failed(ErrConfigDir)
     ELSE IF Len(read) = 0
       THEN [err |-> "", gs |-> seeded, file |-> save.file,
             saved |-> TRUE, saveErr |-> save.err]
       ELSE [err |-> "", gs |-> loaded, file |-> file,
             saved |-> FALSE, saveErr |-> FALSE]

\* The environments of a load of this progress file: it saves only when it
\* seeds.
LoadEnvs(file) == IF Len(ReadDiscovered(file)) = 0 THEN Envs ELSE ReadEnvs

\* ------------------------------------------------------------------ state
VARIABLES
  flags,       \* the command line: mode ("cli", "bot", "api") and dev
  pc,          \* "start", then the front-end running, "exited" or "failed"
  data,        \* the three documents of data/ (embedded, and on disk)
  progress,    \* the local progress file
  gameState,   \* the game state main() holds
  tgFiles,     \* the progress file of every chat identity
  gameStates,  \* TelegramBot.gameStates
  userStates,  \* TelegramBot.userStates
  last,        \* what the last operation was given and what it answered
  inFlight     \* the updates and HTTP requests taken and not yet answered

vars ==
  <<flags, pc, data, progress, gameState, tgFiles, gameStates, userStates,
    last, inFlight>>

Users == 1..MaxUsers

\* Lines typed at a prompt, or sent as a chat message.
RawInputs == {"Water", "\tFIRE ", "earth", "steam"}

\* Texts sent as a chat message that is none of the menu buttons.
ChatTexts == {"Water", "\tFIRE ", "b"}

\* The record of an operation: its name, the identity it served (0 for the
\* local player), the normalized operands, the result, the kind of answer,
\* whether a save ran, whether it failed, whether the failure was shown, the
\* list an enumeration printed, and whether the operation is a combination
\* at the terminal asked for twice in a row with the same operands.
Answer(op, who, a, b, result, out, saved, saveErr, reported, combos) ==
  [op |-> op, who |-> who, a |-> a, b |-> b, result |-> result, out |-> out,
   saved |-> saved, saveErr |-> saveErr, reported |-> reported,
   combos |-> combos,
   again |-> op = "combine" /\ last.op = op /\ last.a = a /\ last.b = b]

Plain(op, who, out) ==
  Answer(op, who, "", "", "", out, FALSE, FALSE, FALSE, <<>>)

\* One list of the members of S.
RECURSIVE SomeList(_)
SomeList(S) ==
  IF S = {} THEN <<>>
  ELSE LET x == CHOOSE y \in S : TRUE IN <<x>> \o SomeList(S \ {x})

\* Orders in which a range over a map with key set S can yield the keys:
\* the iteration starts at any key (at most MaxMapOrders starts are tried).
MapOrders(S) ==
  IF S = {} THEN {<<>>}
  ELSE {Rotate(SomeList(S), k) :
          k \in 1..(IF Cardinality(S) < MaxMapOrders THEN Cardinality(S)
                    ELSE MaxMapOrders)}

\* The progress files of the chat identities when the process starts: the
\* first identity may have played before, the others are new.
TgStores ==
  {[u \in Users |-> IF u = 1 THEN file ELSE NoFile] :
     file \in {NoFile, FileOf(JsonInvalid), FileOf(MarshalIndent(SavedList)),
               FileOf(JsonArray(<<JsonString("water"), JsonNumber>>))}}

InitCommon ==
  /\ pc = "start"
  /\ gameState = NoGameState
  /\ gameStates = <<>>
  /\ userStates = <<>>
  /\ inFlight = <<>>
  /\ last = [op |-> "none", who |-> 0, a |-> "", b |-> "", result |-> "",
             out |-> "", saved |-> FALSE, saveErr |-> FALSE,
             reported |-> FALSE, combos |-> <<>>, again |-> FALSE]

\* The process is started as the terminal game, with or without -dev.
InitCli ==
  /\ flags \in [mode : {"cli"}, dev : BOOLEAN]
  /\ \E sc \in Scenarios : data = sc.data /\ progress = sc.file
  /\ tgFiles = [u \in Users |-> NoFile]
  /\ InitCommon

\* The process is started with -api.
InitApi ==
  /\ flags \in [mode : {"api"}, dev : BOOLEAN]
  /\ \E sc \in Scenarios : data = sc.data /\ progress = sc.file
  /\ tgFiles = [u \in Users |-> NoFile]
  /\ InitCommon

\* The process is started with -bot.
InitBot ==
  /\ flags = [mode |-> "bot", dev |-> FALSE]
  /\ data = StdData
  /\ progress = NoFile
  /\ tgFiles \in TgStores
  /\ InitCommon

Init == InitCli \/ InitApi \/ InitBot

\* main(), up to the choice of the front-end.
Main ==
  /\ pc = "start"
  /\ \E env \in LoadEnvs(progress) :
       LET r == loadGameState(flags.dev, data, progress, env)
       IN /\ pc' = IF r.err # "" THEN "failed" ELSE flags.mode
          /\ gameState' = r.gs
          /\ progress' = r.file
          /\ last' = Answer("load", 0, "", "", "",
                            IF r.err # ""
                              THEN "Failed to load game state: " \o r.err
                              ELSE "Loaded",
                            r.saved, r.saveErr, FALSE, <<>>)
  /\ UNCHANGED <<flags, inFlight, data, tgFiles, gameStates, userStates>>

\* getInput: the line read, trimmed.
getInput(line) == TrimSpace(line)

\* What the two prompts of menu choice "1" yield for every line typed.
TypedElement == [line \in RawInputs |-> normalizeElementName(getInput(line))]

\* Menu choice "1".
CliCombine ==
  /\ pc = "cli"
  /\ \E line1 \in RawInputs, line2 \in RawInputs :
       LET elem1 == TypedElement[line1]
           elem2 == TypedElement[line2]
           c == combineElements(gameState, elem1, elem2)
       IN IF ~isDiscovered(gameState, elem1) \/ ~isDiscovered(gameState, elem2)
            THEN /\ last' = Answer("combine", 0, elem1, elem2, "",
                                   "NotDiscovered", FALSE, FALSE, FALSE, <<>>)
                 /\ UNCHANGED <<gameState, progress>>
          ELSE IF c.result # ""
            THEN \E env \in SaveEnvs :
                   LET save == saveLocalProgress(c.gs, progress, env)
                   IN /\ gameState' = c.gs
                      /\ progress' = save.file
                      /\ last' = Answer("combine", 0, elem1, elem2, c.result,
                                        "Created", TRUE, save.err, FALSE, <<>>)
          ELSE /\ gameState' = c.gs
               /\ progress' = progress
               /\ last' = Answer("combine", 0, elem1, elem2, "",
                                 "NoRecipe", FALSE, FALSE, FALSE, <<>>)
  /\ UNCHANGED <<flags, inFlight, pc, data, tgFiles, gameStates, userStates>>

\* Menu choice "2".
CliView ==
  /\ pc = "cli"
  /\ last' = Answer("view", 0, "", "", "", "Listed", FALSE, FALSE,
                    FALSE, SortStrings(gameState.Discovered))
  /\ UNCHANGED <<flags, inFlight, pc, data, progress, gameState, tgFiles, gameStates,
                 userStates>>

\* Menu choice "3", an unknown choice, and "5" or "6" without -dev.
CliOther ==
  /\ pc = "cli"
  /\ \E out \in {"Hints", "Invalid"} : last' = Plain("other", 0, out)
  /\ UNCHANGED <<flags, inFlight, pc, data, progress, gameState, tgFiles, gameStates,
                 userStates>>

\* Menu choice "4".
CliSaveExit ==
  /\ pc = "cli"
  /\ \E env \in SaveEnvs :
       LET save == saveLocalProgress(gameState, progress, env)
       IN /\ progress' = save.file
          /\ last' = Answer("exit", 0, "", "", "", "Bye", TRUE,
                            save.err, save.err, <<>>)
  /\ pc' = "exited"
  /\ UNCHANGED <<flags, inFlight, data, gameState, tgFiles, gameStates, userStates>>

\* Menu choice "5" with -dev.
CliUntried ==
  /\ pc = "cli"
  /\ flags.dev
  /\ \E mapOrder \in MapOrders(DOMAIN gameState.Elements) :
       last' = Answer("untried", 0, "", "", "", "Combos", FALSE, FALSE,
                      FALSE, getUntriedCombos(gameState, mapOrder))
  /\ UNCHANGED <<flags, inFlight, pc, data, progress, gameState, tgFiles, gameStates,
                 userStates>>

\* One round of menu choice "6" with -dev: reload and enumerate (the
\* suggestion drawn from the list is only printed).
CliRecipeCreator ==
  /\ pc = "cli"
  /\ flags.dev
  /\ \E env \in LoadEnvs(progress) :
       LET r == loadGameState(TRUE, data, progress, env)
       IN IF r.err # ""
            THEN /\ last' = Plain("creator", 0,
                                  "Error reloading game state: " \o r.err)
                 /\ UNCHANGED <<gameState, progress>>
            ELSE /\ gameState' = r.gs
                 /\ progress' = r.file
                 /\ \E mapOrder \in MapOrders(DOMAIN r.gs.Elements) :
                      LET combos == getUntriedCombos(r.gs, mapOrder)
                      IN last' = Answer("creator", 0, "", "", "",
                                   IF Len(combos) = 0 THEN "NoMore"
                                                      ELSE "Suggested",
                                   r.saved, r.saveErr, FALSE, combos)
  /\ UNCHANGED <<flags, inFlight, pc, data, tgFiles, gameStates, userStates>>

\* A handler that looks the pair up under the key as given only.
handleCombineAPI_ForwardOnly(gs, method, elementOne, elementTwo) ==
  LET elem1 == normalizeElementName(elementOne)
      elem2 == normalizeElementName(elementTwo)
      combo1 == ComboKey(elem1, elem2)
  IN IF method # "GET"
       THEN [status |-> 405, Success |-> FALSE, Result |-> "", Error |-> ""]
     ELSE IF combo1 \in DOMAIN gs.Recipes
       THEN [status |-> 200, Success |-> TRUE,
             Result |-> ElementAt(gs, gs.Recipes[combo1]).Name, Error |-> ""]
     ELSE [status |-> 200, Success |-> FALSE, Result |-> "",
           Error |-> "These elements cannot be combined"]

\* A handler that answers only for discovered operands.
handleCombineAPI_Gated(gs, method, elementOne, elementTwo) ==
  LET elem1 == normalizeElementName(elementOne)
      elem2 == normalizeElementName(elementTwo)
      c == combineElements(gs, elem1, elem2)
  IN IF method # "GET"
       THEN [status |-> 405, Success |-> FALSE, Result |-> "", Error |-> ""]
     ELSE IF isDiscovered(gs, elem1) /\ isDiscovered(gs, elem2)
             /\ c.result # ""
       THEN [status |-> 200, Success |-> TRUE,
             Result |-> ElementAt(gs, c.result).Name, Error |-> ""]
     ELSE [status |-> 200, Success |-> FALSE, Result |-> "",
           Error |-> "These elements cannot be combined"]

\* ---------------------------------------------------------------- the API
\* The handler handleCombineAPI returns, applied to one request: the
\* response written (nothing of the game state is assigned).
handleCombineAPI(gs, method, elementOne, elementTwo) ==
  LET elem1 == normalizeElementName(elementOne)
      elem2 == normalizeElementName(elementTwo)
      combo1 == ComboKey(elem1, elem2)
      combo2 == ComboKey(elem2, elem1)
  IN IF method # "GET"
       THEN [status |-> 405, Success |-> FALSE, Result |-> "", Error |-> ""]
     ELSE IF combo1 \in DOMAIN gs.Recipes
       THEN [status |-> 200, Success |-> TRUE,
             Result |-> ElementAt(gs, gs.Recipes[combo1]).Name, Error |-> ""]
     ELSE IF combo2 \in DOMAIN gs.Recipes
       THEN [status |-> 200, Success |-> TRUE,
             Result |-> ElementAt(gs, gs.Recipes[combo2]).Name, Error |-> ""]
     ELSE [status |-> 200, Success |-> FALSE, Result |-> "",
           Error |-> "These elements cannot be combined"]

\* One request to /combine.
ApiCombine ==
  /\ pc = "api"
  /\ \E method \in {"GET", "POST"}, one \in RawInputs, two \in RawInputs :
       LET resp == handleCombineAPI(gameState, method, one, two)
       IN last' = Answer("api", 0, normalizeElementName(one),
                         normalizeElementName(two), resp.Result,
                         IF resp.status = 405 THEN "MethodNotAllowed"
                         ELSE IF resp.Success THEN "Success" ELSE "Failure",
                         FALSE, FALSE, FALSE, <<>>)
  /\ UNCHANGED <<flags, inFlight, pc, data, progress, gameState, tgFiles, gameStates,
                 userStates>>

\* ---------------------------------------------------------------- the bot
\* A conversation state that never leaves the first step.
UserStateOf_KeepsFirst(first, second, element) ==
  [waitingForFirstElement |-> TRUE, waitingForSecondElement |-> second,
   firstElement |-> element]

\* UserState{...}
UserStateOf(first, second, element) ==
  [waitingForFirstElement |-> first, waitingForSecondElement |-> second,
   firstElement |-> element]

\* m[k] = v, for a Go map m.
\* An assignment that reaches every entry of the map: one game state shared
\* by all keys.
MapSet_Shared(m, k, v) == [x \in DOMAIN m \cup {k} |-> v]

MapSet(m, k, v) == [x \in DOMAIN m \cup {k} |-> IF x = k THEN v ELSE m[x]]

\* A delete that leaves the map as it is.
MapDelete_Keeps(m, k) == m

\* delete(m, k)
MapDelete(m, k) == [x \in DOMAIN m \ {k} |-> m[x]]

\* A failed creation that leaves an empty game state in the cache.
getUserGameState_CachesFailure(userID, env) ==
  LET file == tgFiles[userID]
      failed(err) == [err |-> err, gs |-> NoGameState,
                      cache |-> MapSet(gameStates, userID, NoGameState),
                      file |-> file, saved |-> FALSE, saveErr |-> FALSE]
      read == ReadDiscovered(file)
      loaded == GameStateOf(data.elements.v, data.recipes.v, read, <<>>)
      seeded == [loaded EXCEPT !.Discovered = Bootstrap]
      save == saveTelegramProgress(seeded, file, env)
  IN IF userID \in DOMAIN gameStates
       THEN [err |-> "", gs |-> gameStates[userID], cache |-> gameStates,
             file |-> file, saved |-> FALSE, saveErr |-> FALSE]
     ELSE IF ~data.elements.ok THEN failed("failed to load elements")
     ELSE IF ~data.recipes.ok THEN failed("failed to load recipes")
     ELSE IF ~env.path THEN failed(ErrConfigDir)
     ELSE IF Len(read) = 0
       THEN [err |-> "", gs |-> seeded,
             cache |-> MapSet(gameStates, userID, seeded),
             file |-> save.file, saved |-> TRUE, saveErr |-> save.err]
       ELSE [err |-> "", gs |-> loaded,
             cache |-> MapSet(gameStates, userID, loaded),
             file |-> file, saved |-> FALSE, saveErr |-> FALSE]

\* The session built from the store on every call, cached or not.
getUserGameState_NoCache(userID, env) ==
  LET file == tgFiles[userID]
      failed(err) == [err |-> err, gs |-> NoGameState, cache |-> gameStates,
                      file |-> file, saved |-> FALSE, saveErr |-> FALSE]
      read == ReadDiscovered(file)
      loaded == GameStateOf(data.elements.v, data.recipes.v, read, <<>>)
      seeded == [loaded EXCEPT !.Discovered = Bootstrap]
      save == saveTelegramProgress(seeded, file, env)
  IN IF ~data.elements.ok THEN failed("failed to load elements")
     ELSE IF ~data.recipes.ok THEN failed("failed to load recipes")
     ELSE IF ~env.path THEN failed(ErrConfigDir)
     ELSE IF Len(read) = 0
       THEN [err |-> "", gs |-> seeded,
             cache |-> MapSet(gameStates, userID, seeded),
             file |-> save.file, saved |-> TRUE, saveErr |-> save.err]
       ELSE [err |-> "", gs |-> loaded,
             cache |-> MapSet(gameStates, userID, loaded),
             file |-> file, saved |-> FALSE, saveErr |-> FALSE]

\* getUserGameState(userID): err ("" for nil), the game state returned, the
\* cache and the identity's progress file afterwards, whether the seeding
\* save ran and whether it failed.
getUserGameState(userID, env) ==
  LET file == tgFiles[userID]
      failed(err) == [err |-> err, gs |-> NoGameState, cache |-> gameStates,
                      file |-> file, saved |-> FALSE, saveErr |-> FALSE]
      read == ReadDiscovered(file)
      loaded == GameStateOf(data.elements.v, data.recipes.v, read, <<>>)
      seeded == [loaded EXCEPT !.Discovered = Bootstrap]
      save == saveTelegramProgress(seeded, file, env)
  IN IF userID \in DOMAIN gameStates
       THEN [err |-> "", gs |-> gameStates[userID], cache |-> gameStates,
             file |-> file, saved |-> FALSE, saveErr |-> FALSE]
     ELSE IF ~data.elements.ok THEN failed("failed to load elements")
     ELSE IF ~data.recipes.ok THEN failed("failed to load recipes")
     ELSE IF ~env.path THEN failed(ErrConfigDir)
     ELSE IF Len(read) = 0
       THEN [err |-> "", gs |-> seeded,
             cache |-> MapSet(gameStates, userID, seeded),
             file |-> save.file, saved |-> TRUE, saveErr |-> save.err]
       ELSE [err |-> "", gs |-> loaded,
             cache |-> MapSet(gameStates, userID, loaded),
             file |-> file, saved |-> FALSE, saveErr |-> FALSE]

\* The environments of getUserGameState for this identity.
SessionEnvs(userID) ==
  IF userID \in DOMAIN gameStates THEN {CHOOSE env \in ReadEnvs : env.path}
  ELSE LoadEnvs(tgFiles[userID])

\* "/start", "Discovered Elements", "Show Hints", "Back to Categories",
\* "Main Menu", and an update without a message.
BotMenu(chatID) ==
  /\ pc = "bot"
  /\ last' = Plain("menu", chatID, "Menu")
  /\ UNCHANGED <<flags, inFlight, pc, data, progress, gameState, tgFiles, gameStates,
                 userStates>>

\* "Combine Elements": the conversation starts, then sendElementsList.
BotCombineMenu(chatID) ==
  /\ pc = "bot"
  /\ userStates' = MapSet(userStates, chatID, UserStateOf(TRUE, FALSE, ""))
  /\ \E env \in SessionEnvs(chatID) :
       LET r == getUserGameState(chatID, env)
       IN /\ gameStates' = r.cache
          /\ tgFiles' = [tgFiles EXCEPT ![chatID] = r.file]
          /\ last' = Answer("combineMenu", chatID, "", "", "",
                            IF r.err # "" THEN "ErrorLoading" ELSE "EnterFirst",
                            r.saved, r.saveErr, FALSE, <<>>)
  /\ UNCHANGED <<flags, inFlight, pc, data, progress, gameState>>

\* A category button or "Show All Discovered".
BotShow(chatID) ==
  /\ pc = "bot"
  /\ \E env \in SessionEnvs(chatID) :
       LET r == getUserGameState(chatID, env)
       IN /\ gameStates' = r.cache
          /\ tgFiles' = [tgFiles EXCEPT ![chatID] = r.file]
          /\ last' = Answer("show", chatID, "", "", "",
                            IF r.err # "" THEN "ErrorLoading" ELSE "Listed",
                            r.saved, r.saveErr, FALSE, <<>>)
  /\ UNCHANGED <<flags, inFlight, pc, data, progress, gameState, userStates>>

\* "Download Save": sendSaveFile.
BotDownload(chatID) ==
  /\ pc = "bot"
  /\ \E located \in BOOLEAN :
       IF ~located
         THEN /\ last' = Plain("download", chatID, "ErrorLocating")
              /\ UNCHANGED <<gameStates, tgFiles>>
       ELSE IF tgFiles[chatID].status = "missing"
         THEN /\ last' = Plain("download", chatID, "NoSaveFile")
              /\ UNCHANGED <<gameStates, tgFiles>>
       ELSE \E env \in SessionEnvs(chatID) :
              LET r == getUserGameState(chatID, env)
              IN /\ gameStates' = r.cache
                 /\ tgFiles' = [tgFiles EXCEPT ![chatID] = r.file]
                 /\ last' = Answer("download", chatID, "", "", "",
                                   IF r.err # "" THEN "ErrorLoading" ELSE "Sent",
                                   r.saved, r.saveErr, FALSE, <<>>)
  /\ UNCHANGED <<flags, inFlight, pc, data, progress, gameState, userStates>>

\* handleFirstElement(chatID, element)
BotFirstElement(chatID, text) ==
  \E env \in SessionEnvs(chatID) :
    LET r == getUserGameState(chatID, env)
        element == normalizeElementName(text)
    IN /\ gameStates' = r.cache
       /\ tgFiles' = [tgFiles EXCEPT ![chatID] = r.file]
       /\ IF r.err # ""
            THEN /\ last' = Plain("first", chatID, "ErrorLoading")
                 /\ UNCHANGED userStates
          ELSE IF ~isDiscovered(r.gs, element)
            THEN /\ last' = Answer("first", chatID, element, "", "",
                                   "NotDiscovered", r.saved, r.saveErr,
                                   FALSE, <<>>)
                 /\ UNCHANGED userStates
          ELSE /\ userStates' =
                    MapSet(userStates, chatID,
                           UserStateOf(FALSE, TRUE, element))
               /\ last' = Answer("first", chatID, element, "", "",
                                 "EnterSecond", r.saved, r.saveErr, FALSE,
                                 <<>>)

\* handleSecondElement(chatID, firstElement, secondElement)
BotSecondElement(chatID, firstElement, text) ==
  \E env \in SessionEnvs(chatID) :
    LET r == getUserGameState(chatID, env)
        secondElement == normalizeElementName(text)
        c == combineElements(r.gs, firstElement, secondElement)
    IN IF r.err # ""
         THEN /\ last' = Plain("second", chatID, "ErrorLoading")
              /\ gameStates' = r.cache
              /\ tgFiles' = [tgFiles EXCEPT ![chatID] = r.file]
              /\ UNCHANGED userStates
       ELSE IF ~isDiscovered(r.gs, secondElement)
         THEN /\ last' = Answer("second", chatID, firstElement, secondElement,
                                "", "NotDiscovered", r.saved, r.saveErr,
                                FALSE, <<>>)
              /\ gameStates' = r.cache
              /\ tgFiles' = [tgFiles EXCEPT ![chatID] = r.file]
              /\ UNCHANGED userStates
       ELSE IF c.result # ""
         THEN \E senv \in SaveEnvs :
                LET save == saveTelegramProgress(c.gs, r.file, senv)
                IN /\ gameStates' = MapSet(r.cache, chatID, c.gs)
                   /\ tgFiles' = [tgFiles EXCEPT ![chatID] = save.file]
                   /\ last' = Answer("second", chatID, firstElement,
                                     secondElement, c.result, "Created",
                                     TRUE, save.err, FALSE, <<>>)
                   /\ userStates' = MapDelete(userStates, chatID)
       ELSE /\ gameStates' = MapSet(r.cache, chatID, c.gs)
            /\ tgFiles' = [tgFiles EXCEPT ![chatID] = r.file]
            /\ last' = Answer("second", chatID, firstElement, secondElement,
                              "", "NoRecipe", r.saved, r.saveErr, FALSE, <<>>)
            /\ userStates' = MapDelete(userStates, chatID)

\* Any other message text: the default case of the switch in Start.
BotText(chatID) ==
  /\ pc = "bot"
  /\ \E text \in ChatTexts :
       IF chatID \in DOMAIN userStates
         THEN IF userStates[chatID].waitingForFirstElement
                THEN BotFirstElement(chatID, text)
              ELSE IF userStates[chatID].waitingForSecondElement
                THEN BotSecondElement(chatID, userStates[chatID].firstElement,
                                      text)
              ELSE /\ last' = Plain("text", chatID, "Ignored")
                   /\ UNCHANGED <<gameStates, tgFiles, userStates>>
         ELSE /\ last' = Plain("text", chatID, "Ignored")
              /\ UNCHANGED <<gameStates, tgFiles, userStates>>
  /\ UNCHANGED <<flags, inFlight, pc, data, progress, gameState>>

NextCli ==
  \/ Main
  \/ CliCombine
  \/ CliView
  \/ CliOther
  \/ CliSaveExit
  \/ CliUntried
  \/ CliRecipeCreator

NextApi ==
  \/ Main
  \/ ApiCombine

NextBot ==
  \/ Main
  \/ \E chatID \in Users :
       \/ BotMenu(chatID)
       \/ BotCombineMenu(chatID)
       \/ BotShow(chatID)
       \/ BotDownload(chatID)
       \/ BotText(chatID)

Next ==
  \/ Main
  \/ CliCombine
  \/ CliView
  \/ CliOther
  \/ CliSaveExit
  \/ CliUntried
  \/ CliRecipeCreator
  \/ ApiCombine
  \/ \E chatID \in Users :
       \/ BotMenu(chatID)
       \/ BotCombineMenu(chatID)
       \/ BotShow(chatID)
       \/ BotDownload(chatID)
       \/ BotText(chatID)

\* Every way of starting the process.
Spec == Init /\ [][Next]_vars

\* The terminal game alone.
SpecCli == InitCli /\ [][NextCli]_vars

\* The API server alone.
SpecApi == InitApi /\ [][NextApi]_vars

\* The bot alone.
SpecBot == InitBot /\ [][NextBot]_vars

\* ------------------------------------------- the handlers, step by step
\* An update or a request that was taken and is not answered yet.
Activation(kind, who, msg, arg, stage) ==
  [kind |-> kind, who |-> who, msg |-> msg, arg |-> arg, stage |-> stage]

\* The slot a newly taken update or request gets.
FreeSlots == (1..MaxInFlight) \ DOMAIN inFlight

\* A loop that starts a goroutine for each update.
LoopFree_FanOut == TRUE

\* The loop of Start takes the next update when the body has run to its end
\* for the one before.
LoopFree == \A s \in DOMAIN inFlight : inFlight[s].kind # "update"

\* for update := range updates: the next update is taken.
TakeUpdate ==
  /\ pc = "bot"
  /\ LoopFree
  /\ FreeSlots # {}
  /\ \E chatID \in Users, msg \in {"Combine Elements"} \cup ChatTexts :
       inFlight' = MapSet(inFlight, CHOOSE s \in FreeSlots : TRUE,
                          Activation("update", chatID, msg, "", "taken"))
  /\ UNCHANGED <<flags, pc, data, progress, gameState, tgFiles, gameStates,
                 userStates, last>>

\* The case "Combine Elements" of Start, to its end: the conversation state
\* is set and sendElementsList asks for the session.
StepCombineMenu ==
  /\ \E s \in DOMAIN inFlight :
       LET a == inFlight[s]
       IN /\ a.kind = "update"
          /\ a.msg = "Combine Elements"
          /\ userStates' = MapSet(userStates, a.who,
                                  UserStateOf(TRUE, FALSE, ""))
          /\ \E env \in SessionEnvs(a.who) :
               LET r == getUserGameState(a.who, env)
               IN /\ gameStates' = r.cache
                  /\ tgFiles' = [tgFiles EXCEPT ![a.who] = r.file]
          /\ inFlight' = MapDelete(inFlight, s)
  /\ UNCHANGED <<flags, pc, data, progress, gameState, last>>

\* The default case of Start for a chat that is not in a conversation: the
\* text is dropped.
StepIgnored ==
  /\ \E s \in DOMAIN inFlight :
       LET a == inFlight[s]
       IN /\ a.kind = "update"
          /\ a.msg # "Combine Elements"
          /\ a.stage = "taken"
          /\ \/ a.who \notin DOMAIN userStates
             \/ /\ a.who \in DOMAIN userStates
                /\ ~userStates[a.who].waitingForFirstElement
                /\ ~userStates[a.who].waitingForSecondElement
          /\ inFlight' = MapDelete(inFlight, s)
  /\ UNCHANGED <<flags, pc, data, progress, gameState, tgFiles, gameStates,
                 userStates, last>>

\* handleFirstElement, to its end.
StepFirstElement ==
  /\ \E s \in DOMAIN inFlight :
       LET a == inFlight[s]
           element == normalizeElementName(a.msg)
       IN /\ a.kind = "update"
          /\ a.msg # "Combine Elements"
          /\ a.stage = "taken"
          /\ a.who \in DOMAIN userStates
          /\ userStates[a.who].waitingForFirstElement
          /\ \E env \in SessionEnvs(a.who) :
               LET r == getUserGameState(a.who, env)
               IN /\ gameStates' = r.cache
                  /\ tgFiles' = [tgFiles EXCEPT ![a.who] = r.file]
                  /\ userStates' =
                       IF r.err = "" /\ isDiscovered(r.gs, element)
                         THEN MapSet(userStates, a.who,
                                     UserStateOf(FALSE, TRUE, element))
                       ELSE userStates
          /\ inFlight' = MapDelete(inFlight, s)
  /\ UNCHANGED <<flags, pc, data, progress, gameState, last>>

\* handleSecondElement up to the call of saveTelegramProgress: on a hit
\* combineElements has added the result to the session and the handler goes
\* on to the save; otherwise the handler runs to its end.
StepSecondElement ==
  /\ \E s \in DOMAIN inFlight :
       LET a == inFlight[s]
           secondElement == normalizeElementName(a.msg)
       IN /\ a.kind = "update"
          /\ a.msg # "Combine Elements"
          /\ a.stage = "taken"
          /\ a.who \in DOMAIN userStates
          /\ ~userStates[a.who].waitingForFirstElement
          /\ userStates[a.who].waitingForSecondElement
          /\ \E env \in SessionEnvs(a.who) :
               LET r == getUserGameState(a.who, env)
                   c == combineElements(r.gs, userStates[a.who].firstElement,
                                        secondElement)
               IN IF r.err # "" \/ ~isDiscovered(r.gs, secondElement)
                    THEN /\ gameStates' = r.cache
                         /\ tgFiles' = [tgFiles EXCEPT ![a.who] = r.file]
                         /\ inFlight' = MapDelete(inFlight, s)
                         /\ UNCHANGED userStates
                  ELSE IF c.result = ""
                    THEN /\ gameStates' = MapSet(r.cache, a.who, c.gs)
                         /\ tgFiles' = [tgFiles EXCEPT ![a.who] = r.file]
                         /\ userStates' = MapDelete(userStates, a.who)
                         /\ inFlight' = MapDelete(inFlight, s)
                  ELSE /\ gameStates' = MapSet(r.cache, a.who, c.gs)
                       /\ tgFiles' = [tgFiles EXCEPT ![a.who] = r.file]
                       /\ inFlight' =
                            MapSet(inFlight, s,
                                   Activation("update", a.who, a.msg,
                                              c.result, "persist"))
                       /\ UNCHANGED userStates
  /\ UNCHANGED <<flags, pc, data, progress, gameState, last>>

\* The rest of handleSecondElement after a hit: the save, the message, and
\* the end of the conversation.
StepPersist ==
  /\ \E s \in DOMAIN inFlight :
       LET a == inFlight[s]
       IN /\ a.kind = "update"
          /\ a.stage = "persist"
          /\ \E senv \in SaveEnvs :
               LET save == saveTelegramProgress(gameStates[a.who],
                                                tgFiles[a.who], senv)
               IN tgFiles' = [tgFiles EXCEPT ![a.who] = save.file]
          /\ userStates' = MapDelete(userStates, a.who)
          /\ inFlight' = MapDelete(inFlight, s)
  /\ UNCHANGED <<flags, pc, data, progress, gameState, gameStates, last>>

\* Values of the query parameters element-one and element-two.
QueryValues == {"Water", "\tFIRE "}

\* The HTTP server starts a goroutine for each request to /combine.
TakeRequest ==
  /\ pc = "api"
  /\ FreeSlots # {}
  /\ \E one \in QueryValues, two \in QueryValues :
       inFlight' = MapSet(inFlight, CHOOSE s \in FreeSlots : TRUE,
                          Activation("request", 0, one, two, "taken"))
  /\ UNCHANGED <<flags, pc, data, progress, gameState, tgFiles, gameStates,
                 userStates, last>>

\* The handler of one request runs and writes the response.
AnswerRequest ==
  /\ \E s \in DOMAIN inFlight :
       LET a == inFlight[s]
           resp == handleCombineAPI(gameState, "GET", a.msg, a.arg)
       IN /\ a.kind = "request"
          /\ last' = Answer("api", 0, normalizeElementName(a.msg),
                            normalizeElementName(a.arg), resp.Result,
                            IF resp.Success THEN "Success" ELSE "Failure",
                            FALSE, FALSE, FALSE, <<>>)
          /\ inFlight' = MapDelete(inFlight, s)
  /\ UNCHANGED <<flags, pc, data, progress, gameState, tgFiles, gameStates,
                 userStates>>

\* The API server started on the standard data, by a new or a returning
\* player.
InitServer ==
  /\ flags = [mode |-> "api", dev |-> FALSE]
  /\ data = StdData
  /\ progress \in {NoFile, FileOf(MarshalIndent(SavedList))}
  /\ tgFiles = [u \in Users |-> NoFile]
  /\ InitCommon

InitFlight == InitBot \/ InitServer

NextFlight ==
  \/ Main
  \/ TakeUpdate
  \/ StepCombineMenu
  \/ StepIgnored
  \/ StepFirstElement
  \/ StepSecondElement
  \/ StepPersist
  \/ TakeRequest
  \/ AnswerRequest

\* The bot and the API server with their handlers taken step by step.
SpecFlight == InitFlight /\ [][NextFlight]_vars

\* The bot with several chats: the first identity may have played before.
Chats == 1..MaxChats

ChatStores ==
  {[u \in Chats |-> IF u = 1 THEN file ELSE NoFile] :
     file \in {NoFile, FileOf(JsonInvalid), FileOf(MarshalIndent(SavedList))}}

InitChats ==
  /\ flags = [mode |-> "bot", dev |-> FALSE]
  /\ data = StdData
  /\ progress = NoFile
  /\ tgFiles \in ChatStores
  /\ InitCommon

NextChats ==
  \/ Main
  \/ \E chatID \in Chats :
       \/ BotMenu(chatID)
       \/ BotCombineMenu(chatID)
       \/ BotShow(chatID)
       \/ BotDownload(chatID)
       \/ BotText(chatID)

SpecChats == InitChats /\ [][NextChats]_vars

\* ------------------------------------------- the terminal game with -dev
\* With -dev the three documents are read from data/ on disk by every load,
\* and the author of the recipes edits them while the game runs.
DevDataDirs ==
  {StdData, TwoWayData, AbcData, EmptyResultData,
   DataDir(Good(StdElements), Bad, Good(StdImpossible))}

\* The files of data/ are replaced on disk; the process is not involved.
EditData ==
  /\ pc = "cli"
  /\ flags.dev
  /\ data' \in DevDataDirs \ {data}
  /\ UNCHANGED <<flags, inFlight, pc, progress, gameState, tgFiles, gameStates,
                 userStates, last>>

InitDev ==
  /\ flags = [mode |-> "cli", dev |-> TRUE]
  /\ data = StdData
  /\ progress \in {NoFile, FileOf(MarshalIndent(SavedList))}
  /\ tgFiles = [u \in Users |-> NoFile]
  /\ InitCommon

NextDev ==
  \/ Main
  \/ CliCombine
  \/ CliView
  \/ CliOther
  \/ CliSaveExit
  \/ CliUntried
  \/ CliRecipeCreator
  \/ EditData

SpecDev == InitDev /\ [][NextDev]_vars

\* ------------------------------------------ the validation of data/ (test)
\* Two identifiers that differ in letter case only, with the same name.
DupElements ==
  ("a" :> Elem("A", "Natural")) @@
  ("A" :> Elem("A", "Natural")) @@
  ("b" :> Elem("B", "Natural"))

\* Recipe keys as recipes.json can hold them, and results.
TestKeys == {"a+b", "b+a", "a +b", "a+c", "ab", "a+b+c", "b+b", "a+d"}

TestResults == {"b", "d"}

\* The recipe tables with at most two entries over these keys and results.
TestRecipes ==
  {<<>>}
    \cup {k :> r : k \in TestKeys, r \in TestResults}
    \cup {(k1 :> r1) @@ (k2 :> r2) :
            <<k1, k2>> \in {p \in TestKeys \X TestKeys : p[1] # p[2]},
            <<r1, r2>> \in TestResults \X TestResults}

\* data/ as the test finds it: elements.json or recipes.json unreadable or
\* malformed, or both decoded.
TestDataDirs ==
  {DataDir(Good(e), Good(r), Good(<<>>)) :
     e \in {AbcElements, DupElements}, r \in TestRecipes}
    \cup {DataDir(Bad, Good(AbcRecipes), Good(<<>>)),
          DataDir(Good(AbcElements), Bad, Good(<<>>))}

\* "Check for duplicate element indexes": the errors, in the order of the
\* range over the elements.
RECURSIVE CheckIndexes(_, _, _)
CheckIndexes(order, i, seen) ==
  IF i > Len(order) THEN <<>>
  ELSE LET lowIndex == ToLower(order[i])
       IN (IF lowIndex \in seen
             THEN <<"Duplicate element index (case-insensitive): " \o order[i]>>
             ELSE <<>>)
            \o CheckIndexes(order, i + 1, seen \cup {lowIndex})

\* "Check for duplicate element names"
RECURSIVE CheckNames(_, _, _, _)
CheckNames(elements, order, i, seen) ==
  IF i > Len(order) THEN <<>>
  ELSE LET name == elements[order[i]].Name
       IN (IF name \in seen THEN <<"Duplicate element name: " \o name>>
                            ELSE <<>>)
            \o CheckNames(elements, order, i + 1, seen \cup {name})

\* "Check recipes": the errors, in the order of the range over the recipes.
RECURSIVE CheckRecipes(_, _, _, _, _)
CheckRecipes(elements, recipes, order, i, seenCombos) ==
  IF i > Len(order) THEN <<>>
  ELSE LET recipe == order[i]
           result == recipes[recipe]
           parts == SplitPlus(recipe)
       IN IF Len(parts) # 2
            THEN <<"Invalid recipe format: " \o recipe>>
                   \o CheckRecipes(elements, recipes, order, i + 1, seenCombos)
          ELSE LET elem1 == TrimSpace(parts[1])
                   elem2 == TrimSpace(parts[2])
                   comboKey == IF StrLess(elem2, elem1)
                                 THEN ComboKey(elem2, elem1)
                                 ELSE ComboKey(elem1, elem2)
               IN (IF elem1 \notin DOMAIN elements
                     THEN <<"Recipe uses non-existent element: " \o elem1>>
                     ELSE <<>>)
                  \o (IF elem2 \notin DOMAIN elements
                        THEN <<"Recipe uses non-existent element: " \o elem2>>
                        ELSE <<>>)
                  \o (IF result \notin DOMAIN elements
                        THEN <<"Recipe result is non-existent element: "
                                 \o result>>
                        ELSE <<>>)
                  \o (IF comboKey \in seenCombos
                        THEN <<"Duplicate recipe combination: " \o recipe>>
                        ELSE <<>>)
                  \o CheckRecipes(elements, recipes, order, i + 1,
                                  seenCombos \cup {comboKey})

\* The outcome of a test run: the errors of the three subtests.
TestOutcome(out, indexes, names, recipes) ==
  [op |-> "test", who |-> 0, a |-> "", b |-> "", result |-> "", out |-> out,
   saved |-> FALSE, saveErr |-> FALSE, reported |-> FALSE, combos |-> <<>>,
   again |-> FALSE,
   errors |-> [indexes |-> indexes, names |-> names, recipes |-> recipes]]

\* go test: TestDataValidation.
TestDataValidation ==
  /\ pc = "start"
  /\ flags.mode = "test"
  /\ pc' = "exited"
  /\ IF ~data.elements.ok \/ ~data.recipes.ok
       THEN last' = TestOutcome("Fatal", <<>>, <<>>, <<>>)
       ELSE \E eOrder \in MapOrders(DOMAIN data.elements.v),
               nOrder \in MapOrders(DOMAIN data.elements.v),
               rOrder \in MapOrders(DOMAIN data.recipes.v) :
              LET indexes == CheckIndexes(eOrder, 1, {})
                  names == CheckNames(data.elements.v, nOrder, 1, {})
                  recipes == CheckRecipes(data.elements.v, data.recipes.v,
                                          rOrder, 1, {})
              IN last' = TestOutcome(
                           IF Len(indexes) + Len(names) + Len(recipes) = 0
                             THEN "Pass" ELSE "Fail",
                           indexes, names, recipes)
  /\ UNCHANGED <<flags, inFlight, data, progress, gameState, tgFiles,
                 gameStates, userStates>>

InitTest ==
  /\ flags = [mode |-> "test", dev |-> FALSE]
  /\ data \in TestDataDirs
  /\ progress = NoFile
  /\ tgFiles = [u \in Users |-> NoFile]
  /\ InitCommon

NextTest == TestDataValidation

SpecTest == InitTest /\ [][NextTest]_vars

\* ----------------------------------------- the API server over more data
\* Catalogs and progress files the server can be started with: the shipped
\* data, a table with both keys of a pair, a recipe with an empty result, and
\* progress files written by hand.
LookupScenarios ==
  {Scenario(StdData, file) :
     file \in {NoFile, FileOf(MarshalIndent(SavedList)),
               FileOf(MarshalIndent(<<"Water", "fire">>))}} \cup
  {Scenario(TwoWayData, NoFile)} \cup
  {Scenario(d, FileOf(MarshalIndent(<<"a", "b">>))) :
     d \in {AbcData, EmptyResultData}}

InitLookup ==
  /\ flags \in [mode : {"api"}, dev : BOOLEAN]
  /\ \E sc \in LookupScenarios : data = sc.data /\ progress = sc.file
  /\ tgFiles = [u \in Users |-> NoFile]
  /\ InitCommon

NextLookup ==
  \/ Main
  \/ ApiCombine

SpecLookup == InitLookup /\ [][NextLookup]_vars

\* ------------------------------------------------------------ properties
\* The four primordial elements.
Primordial == {"water", "fire", "earth", "wind"}

Members(gs) == {gs.Discovered[i] : i \in 1..Len(gs.Discovered)}

Known(gs, x) == x \in Members(gs)

\* The results the recipe table stores for the pair, under either key.
StoredResults(gs, a, b) ==
  {gs.Recipes[k] : k \in {a \o "+" \o b, b \o "+" \o a} \cap DOMAIN gs.Recipes}

Running == pc \in {"cli", "api", "bot"}

\* The step is a discovery-gated combination: choice "1" of the terminal, or
\* the second element of a chat whose session exists.
CombineStep ==
  \/ last'.op = "combine"
  \/ last'.op = "second" /\ last'.who \in DOMAIN gameStates

\* The ledger the step's combination works on, before and after the step.
LedgerBefore ==
  IF last'.op = "combine" THEN gameState ELSE gameStates[last'.who]

LedgerAfter ==
  IF last'.op = "combine" THEN gameState' ELSE gameStates'[last'.who]

\* C1: a combination of two discovered elements for which the recipe table
\* holds "a+b" or "b+a" answers with a result stored for the pair, and the
\* result is discovered right after it.
C1_RecipeHit ==
  [][(/\ CombineStep
      /\ Known(LedgerBefore, last'.a)
      /\ Known(LedgerBefore, last'.b)
      /\ StoredResults(LedgerBefore, last'.a, last'.b) # {})
     => /\ last'.out = "Created"
        /\ last'.result \in StoredResults(LedgerBefore, last'.a, last'.b)
        /\ Known(LedgerAfter, last'.result)]_vars

\* A recipe stored as "water+fire" was hit by combining fire with water.
C1_Witness ==
  /\ last.op = "combine"
  /\ last.a = "fire"
  /\ last.b = "water"
  /\ last.out = "Created"
  /\ last.result = "steam"
  /\ Known(gameState, "steam")

\* C2: a combination with an operand that is not discovered is rejected as
\* such, with no result, and leaves the discovered list as it was, whether
\* or not a recipe exists for the pair.
C2_Undiscovered ==
  [][(/\ CombineStep
      /\ ~Known(LedgerBefore, last'.a) \/ ~Known(LedgerBefore, last'.b))
     => /\ last'.out = "NotDiscovered"
        /\ last'.result = ""
        /\ LedgerAfter.Discovered = LedgerBefore.Discovered]_vars

\* steam (not discovered) and earth, a pair with a recipe, were rejected.
C2_Witness ==
  /\ last.op = "combine"
  /\ last.a = "steam"
  /\ last.b = "earth"
  /\ last.out = "NotDiscovered"
  /\ "steam+earth" \in DOMAIN gameState.Recipes
  /\ ~Known(gameState, "steam")

\* C3: an identifier in the in-memory discovered list stays in it through
\* every operation of the process.
C3_OnlyGrows ==
  [][/\ pc = "cli" => Members(gameState) \subseteq Members(gameState')
     /\ \A u \in DOMAIN gameStates :
          /\ u \in DOMAIN gameStates'
          /\ Members(gameStates[u]) \subseteq Members(gameStates'[u])]_vars

\* What a load gets out of a progress file: nothing at all ...
YieldsNothing(file) ==
  \/ file.status # "ok"
  \/ file.doc.kind # "array"
  \/ Len(file.doc.items) = 0

\* ... or the strings of a stored list.
StoredStrings(file) ==
  {file.doc.items[i].s :
     i \in {j \in 1..Len(file.doc.items) : file.doc.items[j].t = "string"}}

SeedsOrHoldsBootstrap(file) ==
  YieldsNothing(file) \/ Primordial \subseteq StoredStrings(file)

\* The step loads the local ledger (at start, or in the recipe creator).
LocalLoadStep ==
  \/ last'.op = "load" /\ pc' # "failed"
  \/ last'.op = "creator" /\ last'.out \in {"NoMore", "Suggested"}

\* The step creates the session of chat u.
SessionCreated(u) == u \notin DOMAIN gameStates /\ u \in DOMAIN gameStates'

\* C4: once a session is initialized the bootstrap set is a subset
\* of its discovered list, whatever the persisted store held.
C4_BootstrapAlways ==
  /\ Running => Primordial \subseteq Members(gameState)
  /\ \A u \in DOMAIN gameStates : Primordial \subseteq Members(gameStates[u])

\* What the loaders do guarantee: a ledger loaded from a store that yields
\* nothing (missing, unreadable, not a JSON array, empty) or that holds the
\* bootstrap elements has the bootstrap set as a subset, and keeps it until
\* it is next reloaded.
BootstrapWhenSeededOrStored ==
  [][/\ (LocalLoadStep /\ SeedsOrHoldsBootstrap(progress))
          => Primordial \subseteq Members(gameState')
     /\ (Running /\ last'.op # "creator"
           /\ Primordial \subseteq Members(gameState))
          => Primordial \subseteq Members(gameState')
     /\ \A u \in Users :
          /\ (SessionCreated(u) /\ SeedsOrHoldsBootstrap(tgFiles[u]))
               => Primordial \subseteq Members(gameStates'[u])
          /\ (u \in DOMAIN gameStates
                /\ Primordial \subseteq Members(gameStates[u]))
               => /\ u \in DOMAIN gameStates'
                  /\ Primordial \subseteq Members(gameStates'[u])]_vars

\* C5: a combination of two discovered elements without a recipe under
\* either key answers "no recipe", leaves the discovered list as it was and
\* writes nothing to any progress file.
C5_MissWritesNothing ==
  [][(/\ CombineStep
      /\ Known(LedgerBefore, last'.a)
      /\ Known(LedgerBefore, last'.b)
      /\ StoredResults(LedgerBefore, last'.a, last'.b) = {})
     => /\ last'.out = "NoRecipe"
        /\ last'.result = ""
        /\ LedgerAfter.Discovered = LedgerBefore.Discovered
        /\ ~last'.saved
        /\ progress' = progress
        /\ tgFiles' = tgFiles]_vars

\* A chat combined water with water: no recipe.
C5_Witness ==
  /\ last.op = "second"
  /\ last.a = "water"
  /\ last.b = "water"
  /\ last.out = "NoRecipe"
  /\ last.who \in DOMAIN gameStates
  /\ last.who \notin DOMAIN userStates

\* C6: combineElements called twice in a row returns the same result both
\* times and the second call leaves the discovered list exactly as the first
\* left it (no second entry for the result): for every pair on the ledger of
\* the state, and for the terminal's choice "1" made twice in a row.
C6_Idempotent ==
  [][/\ Running =>
          \A a \in DOMAIN gameState.Elements \cup Members(gameState),
             b \in DOMAIN gameState.Elements \cup Members(gameState) :
            LET first == combineElements(gameState, a, b)
                second == combineElements(first.gs, a, b)
            IN /\ second.result = first.result
               /\ second.gs.Discovered = first.gs.Discovered
     /\ (last'.op = "combine" /\ last'.again)
          => /\ last'.result = last.result
             /\ last'.out = last.out
             /\ gameState'.Discovered = gameState.Discovered]_vars

\* A recipe was crafted a second time in a row.
C6_Witness ==
  /\ last.op = "combine"
  /\ last.again
  /\ last.out = "Created"
  /\ Known(gameState, last.result)

\* The identifiers a combination can be asked for.
Idents(gs) == DOMAIN gs.Elements \cup Members(gs)

\* The table stores both keys of the pair, with different results.
Conflict(gs, a, b) ==
  /\ (a \o "+" \o b) \in DOMAIN gs.Recipes
  /\ (b \o "+" \o a) \in DOMAIN gs.Recipes
  /\ gs.Recipes[a \o "+" \o b] # gs.Recipes[b \o "+" \o a]

\* C7 as stated: combineElements(a, b) and combineElements(b, a) return the
\* same result and leave the same discovered list, for every recipe table.
C7_Symmetric ==
  Running =>
    \A a \in Idents(gameState), b \in Idents(gameState) :
      combineElements(gameState, a, b) = combineElements(gameState, b, a)

\* C7 amended: they do unless the table stores both keys of the pair with
\* different results.
C7_SymmetricUnlessConflict ==
  Running =>
    \A a \in Idents(gameState), b \in Idents(gameState) :
      ~Conflict(gameState, a, b) =>
        combineElements(gameState, a, b) = combineElements(gameState, b, a)

\* The recipe stored as "steam+earth" was hit by combining earth with steam.
C7_Witness ==
  /\ last.op = "combine"
  /\ last.a = "earth"
  /\ last.b = "steam"
  /\ last.out = "Created"
  /\ "steam+earth" \in DOMAIN gameState.Recipes
  /\ "earth+steam" \notin DOMAIN gameState.Recipes

\* The unordered pairs of catalog elements (self-pairs included) without a
\* recipe and without an impossibility entry, under either order.
UntriedPairs(gs) ==
  {p \in {{x, y} : x \in DOMAIN gs.Elements, y \in DOMAIN gs.Elements} :
     \A x \in p, y \in p :
       {x, y} = p =>
         /\ (x \o "+" \o y) \notin DOMAIN gs.Recipes
         /\ \A i \in 1..Len(gs.Impossible) : gs.Impossible[i] # x \o "+" \o y}

\* The ways a pair can be printed.
PairTexts(gs, p) ==
  {gs.Elements[x].Name \o " + " \o gs.Elements[y].Name :
     x \in {v \in p : TRUE}, y \in {w \in p : \E v \in p : {v, w} = p}}

\* The step's enumeration was printed.
Enumerated ==
  \/ last.op = "untried"
  \/ last.op = "creator" /\ last.out \in {"NoMore", "Suggested"}

\* C8: the enumeration lists exactly the untried pairs, each once; for the
\* elements a, b, c with the recipe a+b and the impossibility a+c these are
\* B + C, A + A, B + B and C + C.
C8_UntriedExact ==
  Enumerated =>
    /\ Len(last.combos) = Cardinality(UntriedPairs(gameState))
    /\ \A p \in UntriedPairs(gameState) :
         \E i \in 1..Len(last.combos) : last.combos[i] \in PairTexts(gameState, p)
    /\ \A i \in 1..Len(last.combos) :
         \E p \in UntriedPairs(gameState) :
           last.combos[i] \in PairTexts(gameState, p)
    /\ \A i \in 1..Len(last.combos), j \in 1..Len(last.combos) :
         last.combos[i] = last.combos[j] => i = j
    /\ data = AbcData =>
         Range(last.combos) = {"B + C", "A + A", "B + B", "C + C"}

\* The untried pairs of the catalog a, b, c were listed.
C8_Witness ==
  /\ last.op = "untried"
  /\ data = AbcData
  /\ Len(last.combos) = 4

\* The three data documents can be decoded.
DataOk == data.elements.ok /\ data.recipes.ok /\ data.impossible.ok

\* The store holds a list of which some entry is not a string.
PartlyDecodable(file) ==
  /\ file.status = "ok"
  /\ file.doc.kind = "array"
  /\ \E i \in 1..Len(file.doc.items) : file.doc.items[i].t # "string"

\* The store is missing, unreadable, malformed or only partly decodable.
LoadFails(file) ==
  \/ file.status # "ok"
  \/ file.doc.kind \in {"invalid", "other"}
  \/ PartlyDecodable(file)

\* The step is an operation of chat u that asks for its session first.
AsksSession(u) ==
  /\ last'.who = u
  /\ last'.op \in {"combineMenu", "show", "first", "second"}

\* C9: whenever the store is missing, unreadable, malformed or
\* partly decodable, or its location cannot be resolved, initialization
\* succeeds and the discovered list is exactly the bootstrap set.
C9_LoadNeverFatal ==
  [][/\ (last'.op = "load" /\ DataOk /\ LoadFails(progress))
          => pc' # "failed" /\ Members(gameState') = Primordial
     /\ \A u \in Users :
          (AsksSession(u) /\ u \notin DOMAIN gameStates
             /\ LoadFails(tgFiles[u]))
            => /\ u \in DOMAIN gameStates'
               /\ Members(gameStates'[u]) = Primordial]_vars

FourSeeds == <<"water", "fire", "earth", "wind">>

\* The entries of a stored list as a load decodes them.
Decoded(file) ==
  [i \in 1..Len(file.doc.items) |->
     IF file.doc.items[i].t = "string" THEN file.doc.items[i].s ELSE ""]

\* What the loaders do guarantee: a store that is missing, unreadable or not
\* a JSON array never makes initialization fail, and the ledger is then
\* exactly the bootstrap list; with the catalog loaded, initialization fails
\* only when the location of the store cannot be resolved; a partly decodable
\* list is loaded with the entries that decode.
ReadFailureSeeds ==
  [][/\ (last'.op = "load" /\ DataOk)
          => \/ /\ pc' = "failed"
                /\ last'.out = "Failed to load game state: " \o ErrConfigDir
             \/ /\ pc' # "failed"
                /\ YieldsNothing(progress)
                     => gameState'.Discovered = FourSeeds
                /\ PartlyDecodable(progress)
                     => gameState'.Discovered = Decoded(progress)
     /\ \A u \in Users :
          (AsksSession(u) /\ u \notin DOMAIN gameStates)
            => \/ /\ u \notin DOMAIN gameStates'
                  /\ last'.out = "ErrorLoading"
               \/ /\ u \in DOMAIN gameStates'
                  /\ YieldsNothing(tgFiles[u])
                       => gameStates'[u].Discovered = FourSeeds
                  /\ PartlyDecodable(tgFiles[u])
                       => gameStates'[u].Discovered = Decoded(tgFiles[u])]_vars

\* C10: whenever a save fails, the failure is shown to whoever triggered it.
C10_SaveFailureReported == last.saveErr => last.reported

\* The step is a combination that created an element while the write of the
\* progress file failed.
FailedSaveStep ==
  /\ CombineStep
  /\ last'.out = "Created"
  /\ last'.saveErr

\* The list a combination leaves when it hits the recipe for result.
WithResult(gs, result) ==
  IF Known(gs, result) THEN gs.Discovered
  ELSE gs.Discovered \o <<result>>

\* What does hold of a failed save: on the step itself the result is in the
\* in-memory list, the list is what the combination made it, and isDiscovered
\* answers true for the result on the ledger the step leaves.
FailedSaveKeepsMemoryAtStep ==
  [][FailedSaveStep
     => /\ Known(LedgerAfter, last'.result)
        /\ LedgerAfter.Discovered = WithResult(LedgerBefore, last'.result)
        /\ isDiscovered(LedgerAfter, last'.result)]_vars

\* C11: when the write after a successful combination fails, the in-memory
\* list keeps the new result (it is the list as it was right before the save
\* attempt), and the session's next isDiscovered query for the result, which
\* comes after whatever the session does next, answers true.
C11_FailedSaveKeepsMemory ==
  [][/\ FailedSaveStep
          => /\ Known(LedgerAfter, last'.result)
             /\ LedgerAfter.Discovered = WithResult(LedgerBefore, last'.result)
     /\ (last.op = "combine" /\ last.out = "Created" /\ last.saveErr)
          => isDiscovered(gameState', last.result)
     /\ (last.op = "second" /\ last.out = "Created" /\ last.saveErr)
          => isDiscovered(gameStates'[last.who], last.result)]_vars

\* What the process holds for chat identity y: the session's list (none
\* before the session exists), the conversation state and the progress file.
Holding(gss, uss, files, y) ==
  [session |-> IF y \in DOMAIN gss THEN <<gss[y].Discovered>> ELSE <<>>,
   talk |-> IF y \in DOMAIN uss THEN <<uss[y]>> ELSE <<>>,
   store |-> files[y]]

\* C12: the handling of an update of chat identity x leaves the in-memory
\* list, the conversation state and the progress file of every other
\* identity as they were.
C12_SessionIsolation ==
  [][\A x \in DOMAIN tgFiles, y \in DOMAIN tgFiles :
       (pc = "bot" /\ last'.who = x /\ y # x)
         => Holding(gameStates', userStates', tgFiles', y)
              = Holding(gameStates, userStates, tgFiles, y)]_vars

\* Chat 2 created steam while chat 1, which has a session and a progress file
\* of its own, is in the middle of a combination.
C12_Witness ==
  /\ last.op = "second"
  /\ last.who = 2
  /\ last.out = "Created"
  /\ 1 \in DOMAIN gameStates
  /\ 1 \in DOMAIN userStates
  /\ ~Known(gameStates[1], "steam")
  /\ Known(gameStates[2], "steam")
  /\ tgFiles[1] # tgFiles[2]

\* The step handles an update that asks for the session of a chat first.
UsesSession ==
  last'.op \in {"combineMenu", "show", "download", "first", "second"}

\* C13: a cached session is what getUserGameState returns from then on,
\* whatever the store holds and whether or not its path resolves, the store
\* is not touched by the call, and the cache never loses an entry nor gets
\* another session under a key: an entry changes only by the discoveries its
\* own chat makes through it.
C13_SessionCache ==
  [][/\ \A u \in DOMAIN gameStates :
          /\ \A env \in Envs :
               LET r == getUserGameState(u, env)
               IN /\ r.err = ""
                  /\ r.gs = gameStates[u]
                  /\ r.cache = gameStates
                  /\ r.file = tgFiles[u]
                  /\ ~r.saved
          /\ u \in DOMAIN gameStates'
          /\ gameStates'[u].Elements = gameStates[u].Elements
          /\ gameStates'[u].Recipes = gameStates[u].Recipes
          /\ gameStates'[u].Impossible = gameStates[u].Impossible
          /\ gameStates'[u] # gameStates[u]
               => /\ last'.op = "second"
                  /\ last'.who = u
                  /\ last'.out = "Created"
                  /\ gameStates'[u].Discovered
                       = gameStates[u].Discovered \o <<last'.result>>
     /\ (UsesSession /\ last'.who \in DOMAIN gameStates
           /\ last'.out # "Created")
          => /\ last'.out \notin {"ErrorLoading"}
             /\ ~last'.saved
             /\ tgFiles' = tgFiles]_vars

\* The session of chat 1 was listed from the cache while the store, whose
\* writes failed, holds no list at all.
C13_Witness ==
  /\ last.op = "show"
  /\ last.who = 1
  /\ last.out = "Listed"
  /\ 1 \in DOMAIN gameStates
  /\ Known(gameStates[1], "steam")
  /\ tgFiles[1] = NoFile

\* The updates in flight, and those of chat u.
UpdatesInFlight ==
  {s \in DOMAIN inFlight : inFlight[s].kind = "update"}

UpdatesOf(u) == {s \in UpdatesInFlight : inFlight[s].who = u}

OneUpdateAtATime ==
  /\ Cardinality(UpdatesInFlight) <= 1
  /\ \A u \in DOMAIN tgFiles : Cardinality(UpdatesOf(u)) <= 1

\* C14: at most one update is in flight at any time, hence at most one
\* session creation or addDiscovered+persist sequence per identity, and no
\* step of the API server, however many requests it serves at once, writes
\* to the ledger, the session cache or a progress file.
C14_OneMutationInFlight ==
  [][/\ OneUpdateAtATime
     /\ OneUpdateAtATime'
     /\ (pc = "api" \/ \E s \in DOMAIN inFlight : inFlight[s].kind = "request")
          => UNCHANGED <<gameState, gameStates, userStates, progress,
                         tgFiles>>]_vars

\* A combination is half done: steam is in the session of the chat and not
\* yet in its progress file, and no other update has been taken.
C14_Witness ==
  /\ \E s \in DOMAIN inFlight :
       /\ inFlight[s].stage = "persist"
       /\ inFlight[s].arg = "steam"
       /\ Known(gameStates[inFlight[s].who], "steam")
       /\ "steam" \notin Range(ReadDiscovered(tgFiles[inFlight[s].who]))
  /\ Cardinality(DOMAIN inFlight) = 1

\* The list a progress file holds.
StoreList(file) ==
  IF file.status = "ok" /\ file.doc.kind = "array" THEN Decoded(file)
  ELSE <<>>

\* The progress file of chat u holds the list of its session, if it has one.
Committed(gss, files, u) ==
  u \in DOMAIN gss => StoreList(files[u]) = gss[u].Discovered

\* C15: in the bot, as long as no write fails, after every handled update the
\* progress file of each cached session holds exactly the session's list:
\* the bootstrap list as soon as a new player's session is created, the
\* result as soon as a successful combination has been handled.
C15_ImmediateCommit ==
  [][pc = "bot" =>
       \A u \in DOMAIN tgFiles :
         /\ (Committed(gameStates, tgFiles, u) /\ ~last'.saveErr)
              => Committed(gameStates', tgFiles', u)
         /\ (SessionCreated(u) /\ YieldsNothing(tgFiles[u]) /\ ~last'.saveErr)
              => StoreList(tgFiles'[u]) = FourSeeds
         /\ (last'.op = "second" /\ last'.who = u /\ last'.out = "Created"
               /\ ~last'.saveErr)
              => /\ last'.saved
                 /\ last'.result \in Range(StoreList(tgFiles'[u]))
                 /\ StoreList(tgFiles'[u]) = gameStates'[u].Discovered]_vars

\* A new player's combination was handled: the progress file holds the four
\* seeds and steam, as the session does.
C15_Witness ==
  /\ last.op = "second"
  /\ last.out = "Created"
  /\ ~last.saveErr
  /\ StoreList(tgFiles[last.who]) = FourSeeds \o <<"steam">>
  /\ gameStates[last.who].Discovered = FourSeeds \o <<"steam">>

\* An environment in which paths resolve and writes succeed.
GoodEnvs == {env \in Envs : env.path /\ env.spath /\ env.write = "ok"}

\* C16: for every list a session can hold, a successful save followed by a
\* load of the same store (as a new process or a new session does it) gives
\* a list with exactly the same members, and the load seeds nothing.
C16_RoundTrip ==
  /\ Running =>
       \A env \in GoodEnvs :
         LET save == saveLocalProgress(gameState, progress, env)
             load == loadGameState(flags.dev, data, save.file, env)
         IN /\ ~save.err
            /\ load.err = ""
            /\ ~load.saved
            /\ Members(load.gs) = Members(gameState)
  /\ \A u \in DOMAIN gameStates :
       \A env \in GoodEnvs :
         LET save == saveTelegramProgress(gameStates[u], tgFiles[u], env)
             read == ReadDiscovered(save.file)
         IN /\ ~save.err
            /\ Len(read) # 0
            /\ Range(read) = Members(gameStates[u])

\* The recipe creator reloaded a ledger that an earlier combination had
\* saved: hot-mud, created in this process, came back from the store.
C16_Witness ==
  /\ last.op = "creator"
  /\ last.out = "Suggested"
  /\ gameState.Discovered = FourSeeds \o <<"hot-mud">>
  /\ StoreList(progress) = gameState.Discovered

\* The list holds the four primordial elements, each once, and nothing else.
ExactlySeeds(list) ==
  /\ Len(list) = 4
  /\ {list[i] : i \in 1..Len(list)} = Primordial

\* C17: a ledger seeded for an identity without a persisted store, by the
\* local load or by the creation of a chat session, holds exactly water,
\* fire, earth and wind, each once, whether or not the seeding save works.
C17_FreshLedger ==
  [][/\ (LocalLoadStep /\ progress.status = "missing")
          => ExactlySeeds(gameState'.Discovered)
     /\ \A u \in DOMAIN tgFiles :
          (SessionCreated(u) /\ tgFiles[u].status = "missing")
            => ExactlySeeds(gameStates'[u].Discovered)]_vars

\* The session of a chat without a store was created and seeded; the seeding
\* save failed, so the store is still missing.
C17_Witness ==
  /\ last.op = "combineMenu"
  /\ last.saved
  /\ last.saveErr
  /\ tgFiles[last.who].status = "missing"
  /\ last.who \in DOMAIN gameStates
  /\ ExactlySeeds(gameStates[last.who].Discovered)

\* The display names of the results stored for the pair.
StoredNames(gs, a, b) ==
  {gs.Elements[r].Name : r \in StoredResults(gs, a, b) \cap DOMAIN gs.Elements}

\* C18: a GET on /combine reports success, with the name of a result stored
\* for the pair, exactly when the recipe table holds "a+b" or "b+a"; the
\* answer of the server, once started, is the same whatever the discovered
\* list holds, and the request changes neither the ledger nor a progress
\* file.
C18_StatelessLookup ==
  [][/\ (last'.op = "api" /\ last'.out # "MethodNotAllowed")
          => /\ (last'.out = "Success")
                  <=> (StoredResults(gameState, last'.a, last'.b) # {})
             /\ last'.out = "Success"
                  => last'.result \in StoredNames(gameState, last'.a, last'.b)
             /\ last'.out # "Success"
                  => last'.out = "Failure" /\ last'.result = ""
             /\ UNCHANGED <<gameState, progress, tgFiles, gameStates>>
     /\ (pc = "api" /\ last.op = "load")
          => \A one \in RawInputs, two \in RawInputs :
               \A known \in {<<>>, <<"steam">>, FourSeeds} :
                 handleCombineAPI([gameState EXCEPT !.Discovered = known],
                                  "GET", one, two)
                   = handleCombineAPI(gameState, "GET", one, two)]_vars

\* The server answered Hot Mud for steam and earth while steam is not
\* discovered.
C18_Witness ==
  /\ last.op = "api"
  /\ last.a = "steam"
  /\ last.b = "earth"
  /\ last.out = "Success"
  /\ last.result = "Hot Mud"
  /\ ~Known(gameState, "steam")

\* Every order in which a range over a map with these keys can yield them.
AllOrders(S) ==
  {o \in [1..Cardinality(S) -> S] : \A i, j \in DOMAIN o : o[i] = o[j] => i = j}

\* The identifier pairs (first not after second) a listed text stands for.
IdPairs(gs, text) ==
  {p \in (DOMAIN gs.Elements) \X (DOMAIN gs.Elements) :
     /\ ~StrLess(p[2], p[1])
     /\ gs.Elements[p[1]].Name \o " + " \o gs.Elements[p[2]].Name = text}

PairLess(p, q) ==
  \/ StrLess(p[1], q[1])
  \/ p[1] = q[1] /\ StrLess(p[2], q[2])

\* The listing runs by ascending first identifier, then ascending second.
OrderedByIds(gs, combos) ==
  LET ids == [i \in 1..Len(combos) |-> IdPairs(gs, combos[i])]
  IN \A i \in 1..Len(combos) :
       /\ ids[i] # {}
       /\ \A j \in (i + 1)..Len(combos) :
            \A p \in ids[i], q \in ids[j] : PairLess(p, q)

\* C19: the enumeration of untried pairs is deterministic: every listing the
\* program produces is the one listing fixed by the loaded catalog, ordered by
\* the sorted identifiers (ascending first identifier, then ascending second,
\* second not before first), and every order in which the map range can
\* yield the identifiers gives that same listing.
C19_Deterministic ==
  /\ Enumerated =>
       /\ OrderedByIds(gameState, last.combos)
       /\ \A mapOrder \in MapOrders(DOMAIN gameState.Elements) :
            getUntriedCombos(gameState, mapOrder) = last.combos
  /\ (pc = "cli" /\ last.op = "load") =>
       \A o1 \in AllOrders(DOMAIN gameState.Elements) :
         getUntriedCombos(gameState, o1)
           = getUntriedCombos(gameState, SomeList(DOMAIN gameState.Elements))

\* A listing of several untried pairs was produced from a catalog whose map
\* range can yield the identifiers in more than one order.
C19_Witness ==
  /\ Enumerated
  /\ Len(last.combos) >= 2
  /\ Cardinality(MapOrders(DOMAIN gameState.Elements)) >= 2
  /\ \E o \in MapOrders(DOMAIN gameState.Elements) :
       o # SortStrings(o)

\* The game state holds all three documents of data/ in full.
Complete(gs) ==
  /\ DataOk
  /\ gs.Elements = data.elements.v
  /\ gs.Recipes = data.recipes.v
  /\ gs.Impossible = data.impossible.v

\* The step is a load by main() or a reload by menu choice "6" that ends as
\* the claim asks: with a complete game state, or with the error reported
\* and no game state handed over (the reload keeps the one it had).
LoadEndsWhole ==
  /\ last'.op = "load" =>
       \/ pc' # "failed" /\ Complete(gameState')
       \/ pc' = "failed" /\ gameState' = NoGameState
  /\ last'.op = "creator" =>
       \/ last'.out \in {"NoMore", "Suggested"} /\ Complete(gameState')
       \/ last'.out \notin {"NoMore", "Suggested"} /\ gameState' = gameState
  /\ (last'.op \in {"load", "creator"} /\ ~DataOk) =>
       /\ gameState' = gameState
       /\ last'.out \notin {"Loaded", "NoMore", "Suggested"}

\* C20: every path that builds a game state, the local load in embedded and
\* in dev mode and the creation of a chat session, ends with a game state
\* that holds all three documents in full or with an error and no game state.
C20_FailFast ==
  [][/\ LoadEndsWhole
     /\ \A u \in DOMAIN tgFiles :
          /\ SessionCreated(u) => Complete(gameStates'[u])
          /\ (AsksSession(u) /\ u \notin DOMAIN gameStates')
               => last'.out = "ErrorLoading"]_vars

\* What loadGameState does guarantee, in both modes: all three documents in
\* full, or the error and no game state.
LoadFailsFast == [][LoadEndsWhole]_vars

\* What getUserGameState does guarantee: the elements and the recipes in
\* full and no entry of the impossibility list.
SessionHoldsTwoOfThree ==
  \A u \in DOMAIN gameStates :
    /\ gameStates[u].Elements = data.elements.v
    /\ gameStates[u].Recipes = data.recipes.v
    /\ gameStates[u].Impossible = <<>>

\* The elements, recipes and impossibility list a game state uses.
Catalog(gs) ==
  [Elements |-> gs.Elements, Recipes |-> gs.Recipes,
   Impossible |-> gs.Impossible]

\* C21: once a game state is initialized, no operation of the process changes
\* the elements, the recipes or the impossibility list it uses: not in the
\* terminal game (with the -dev menu options), not in a chat session, not in
\* the API server.
C21_CatalogFixed ==
  [][/\ (Running /\ Running') => Catalog(gameState') = Catalog(gameState)
     /\ \A u \in DOMAIN gameStates :
          /\ u \in DOMAIN gameStates'
          /\ Catalog(gameStates'[u]) = Catalog(gameStates[u])]_vars

\* What does hold: only the reload of menu choice "6" replaces the catalog,
\* by the documents data/ holds at that moment.
CatalogFixedButForReload ==
  [][(Running /\ Running' /\ Catalog(gameState') # Catalog(gameState))
       => /\ flags.dev
          /\ last'.op = "creator"
          /\ last'.out \in {"NoMore", "Suggested"}
          /\ Complete(gameState')]_vars

\* The step changes the discovered list main() works on, or that of the
\* session of chat u.
LedgerChanged == Running /\ Running' /\ gameState'.Discovered # gameState.Discovered

SessionLedgerChanged(u) ==
  /\ u \in DOMAIN gameStates
  /\ u \in DOMAIN gameStates' => gameStates'[u].Discovered # gameStates[u].Discovered

\* C22: after initialization only a successful combination changes the
\* discovered list in memory; listings, views, the download, the enumeration,
\* the recipe-creator flow, a rejected or recipe-less combination and the save
\* leave it as it was.
C22_OnlyCombineMutates ==
  [][/\ LedgerChanged => last'.op = "combine" /\ last'.out = "Created"
     /\ \A u \in DOMAIN tgFiles :
          SessionLedgerChanged(u)
            => last'.op = "second" /\ last'.who = u /\ last'.out = "Created"]_vars

\* What does hold: besides a successful combination only the reload of the
\* recipe-creator flow changes the list.
OnlyCombineOrReloadMutates ==
  [][/\ LedgerChanged
          => \/ last'.op = "combine" /\ last'.out = "Created"
             \/ flags.dev /\ last'.op = "creator"
     /\ \A u \in DOMAIN tgFiles :
          SessionLedgerChanged(u)
            => last'.op = "second" /\ last'.who = u /\ last'.out = "Created"]_vars

\* Every name of at most n characters over a letter in each case, the two
\* kinds of white space and the dash.
RECURSIVE NamesUpTo(_)
NamesUpTo(n) ==
  IF n = 0 THEN {""}
  ELSE LET shorter == NamesUpTo(n - 1)
       IN shorter \cup {s \o c : s \in shorter, c \in {"A", "b", " ", "\t", "-"}}

\* Ways of typing an identifier: letter case and surrounding white space.
Spellings(id) ==
  IF id = "water" THEN {"water", "Water", "WATER", " wAtEr", "Water \t"}
  ELSE IF id = "fire" THEN {"fire", "FIRE", "Fire", "\tFIRE ", "  fIRE"}
  ELSE {id}

\* The ledger of a new player, in a catalog with the recipe water+fire.
NewPlayer(gs) ==
  /\ gs.Discovered = <<"water", "fire", "earth", "wind">>
  /\ "water+fire" \in DOMAIN gs.Recipes
  /\ gs.Recipes["water+fire"] = "steam"

\* Water and fire combined into steam for a new player with ledger gs,
\* leaving ledger gs2.
MadeSteam(gs, gs2) ==
  /\ last'.a = "water"
  /\ last'.b = "fire"
  /\ NewPlayer(gs)
  => /\ last'.out = "Created"
     /\ last'.result = "steam"
     /\ gs2.Discovered = <<"water", "fire", "earth", "wind", "steam">>

\* C23: the inputs are normalized before the discovery check and the recipe
\* lookup: for a new player Water and FIRE, in any letter case and with
\* surrounding white space, combine into steam at the terminal and in a chat
\* and the discovered list becomes water, fire, earth, wind, steam;
\* normalization is idempotent and leaves the bootstrap identifiers as they
\* are.
C23_Normalized ==
  [][/\ pc = "start" =>
          /\ \A id \in {"water", "fire"} : \A s \in Spellings(id) :
               normalizeElementName(s) = id
          /\ \A s \in NamesUpTo(MaxNameLen) :
               normalizeElementName(normalizeElementName(s))
                 = normalizeElementName(s)
          /\ \A id \in Primordial \cup {"hot-mud"} :
               normalizeElementName(id) = id
     /\ (pc = "cli" /\ NewPlayer(gameState)) =>
          LET elem1 == TypedElement["Water"]
              elem2 == TypedElement["\tFIRE "]
          IN /\ isDiscovered(gameState, elem1)
             /\ isDiscovered(gameState, elem2)
             /\ combineElements(gameState, elem1, elem2).result = "steam"
     /\ last'.op = "combine" =>
          /\ last'.a \in {normalizeElementName(getInput(l)) : l \in RawInputs}
          /\ last'.b \in {normalizeElementName(getInput(l)) : l \in RawInputs}
          /\ MadeSteam(gameState, gameState')
     /\ (last'.op = "second" /\ last'.who \in DOMAIN gameStates) =>
          /\ last'.b \in {normalizeElementName(t) : t \in ChatTexts}
          /\ MadeSteam(gameStates[last'.who], gameStates'[last'.who])
     /\ (last'.op = "first" /\ last'.out # "ErrorLoading") =>
          last'.a \in {normalizeElementName(t) : t \in ChatTexts}]_vars

\* A new player made steam from Water and FIRE, at the terminal or in a chat.
C23_Witness ==
  /\ last.op \in {"combine", "second"}
  /\ last.a = "water"
  /\ last.b = "fire"
  /\ last.result = "steam"
  /\ IF last.op = "combine"
       THEN gameState.Discovered = <<"water", "fire", "earth", "wind", "steam">>
       ELSE /\ last.who \in DOMAIN gameStates
            /\ gameStates[last.who].Discovered
                 = <<"water", "fire", "earth", "wind", "steam">>

\* The positions of the '+' characters of a recipe key.
PlusAt(key) == {i \in 1..Len(key) : SubSeq(key, i, i) = "+"}

\* The two operands of a key with one '+', as written.
OperandsOf(key) ==
  LET p == CHOOSE i \in PlusAt(key) : TRUE
  IN <<SubSeq(key, 1, p - 1), SubSeq(key, p + 1, Len(key))>>

\* The same operands without the white space around them.
TrimmedOperandsOf(key) ==
  <<TrimSpace(OperandsOf(key)[1]), TrimSpace(OperandsOf(key)[2])>>

\* A defect of the recipe table, with ops giving the operands of a key.
Defect(elements, recipes, ops(_)) ==
  \/ \E k \in DOMAIN recipes : Cardinality(PlusAt(k)) # 1
  \/ \E k \in DOMAIN recipes :
       /\ Cardinality(PlusAt(k)) = 1
       /\ \/ ops(k)[1] \notin DOMAIN elements
          \/ ops(k)[2] \notin DOMAIN elements
          \/ recipes[k] \notin DOMAIN elements
  \/ \E k1 \in DOMAIN recipes, k2 \in DOMAIN recipes :
       /\ k1 # k2
       /\ Cardinality(PlusAt(k1)) = 1
       /\ Cardinality(PlusAt(k2)) = 1
       /\ {ops(k1)[1], ops(k1)[2]} = {ops(k2)[1], ops(k2)[2]}

\* The test ran its subtests.
Validated == last.op = "test" /\ last.out # "Fatal"

\* C24: "Check recipes" reports an error if and only if some recipe key does
\* not split into exactly two operands at '+', or an operand or the result is
\* no key of the elements, or two keys denote the same unordered pair; a
\* table with none of these defects passes.
C24_ValidationExact ==
  Validated =>
    ((last.errors.recipes # <<>>)
       <=> Defect(data.elements.v, data.recipes.v, OperandsOf))

\* What the subtest does decide: the same with the operands taken without
\* the white space around them.
ValidationExactOnTrimmed ==
  Validated =>
    ((last.errors.recipes # <<>>)
       <=> Defect(data.elements.v, data.recipes.v, TrimmedOperandsOf))

\* The step hands both operands of chat u to combineElements.
CombinesFor(u) ==
  /\ last'.op = "second"
  /\ last'.who = u
  /\ last'.out \in {"Created", "NoRecipe"}

\* C25: in a chat's two-step flow combineElements only ever gets operands
\* that are both in the chat's own discovered list: the first element kept in
\* the conversation state was discovered when it was accepted and stays so
\* until the second element arrives, whatever this chat and the other chats
\* send in between.
C25_BothOperandsKnown ==
  [][/\ \A u \in DOMAIN userStates :
          userStates[u].waitingForSecondElement
            => /\ u \in DOMAIN gameStates
               /\ Known(gameStates[u], userStates[u].firstElement)
     /\ \A u \in DOMAIN tgFiles :
          CombinesFor(u)
            => /\ u \in DOMAIN gameStates
               /\ last'.a = userStates[u].firstElement
               /\ Known(gameStates[u], last'.a)
               /\ Known(gameStates[u], last'.b)
     /\ \A u \in DOMAIN tgFiles :
          (last'.op = "first" /\ last'.who = u /\ last'.out = "EnterSecond")
            => /\ u \in DOMAIN gameStates'
               /\ userStates'[u].firstElement = last'.a
               /\ Known(gameStates'[u], last'.a)]_vars

\* A chat's two operands were combined while another chat had a session and
\* was in the middle of its own attempt.
C25_Witness ==
  /\ last.op = "second"
  /\ last.out \in {"Created", "NoRecipe"}
  /\ \E y \in DOMAIN userStates :
       /\ y # last.who
       /\ y \in DOMAIN gameStates
       /\ userStates[y].waitingForSecondElement

\* What the enumerator prints for the pair, whichever way round it is given.
TextOfPair(gs, x, y) ==
  IF StrLess(y, x) THEN ComboText(gs.Elements[y].Name, gs.Elements[x].Name)
  ELSE ComboText(gs.Elements[x].Name, gs.Elements[y].Name)

\* The texts the enumerator prints when nothing is recorded as impossible:
\* a pair that is missing was skipped as a recipe.
EmittedButForRecipes(gs) ==
  Range(getUntriedCombos([gs EXCEPT !.Impossible = <<>>],
                         SomeList(DOMAIN gs.Elements)))

\* The texts the enumerator prints.
Emitted(gs) == Range(getUntriedCombos(gs, SomeList(DOMAIN gs.Elements)))

\* The resolver and the enumerator agree on every pair of catalog elements.
SameLookup(gs) ==
  LET printed == EmittedButForRecipes(gs)
  IN \A x \in DOMAIN gs.Elements, y \in DOMAIN gs.Elements :
       (TextOfPair(gs, x, y) \notin printed)
         <=> combineElements(gs, x, y).result # ""

\* Every pair the enumerator prints has no recipe for the resolver, in
\* either order of the operands.
EmittedHaveNoRecipe(gs) ==
  LET printed == Emitted(gs)
  IN \A x \in DOMAIN gs.Elements, y \in DOMAIN gs.Elements :
       TextOfPair(gs, x, y) \in printed
         => /\ combineElements(gs, x, y).result = ""
            /\ combineElements(gs, y, x).result = ""

\* C26 as stated: for every catalog and every pair of its elements the
\* enumerator skips the pair as a recipe exactly when combineElements returns
\* a result for it, so every pair it prints has no recipe in either order.
C26_SameLookup ==
  (pc = "cli" /\ flags.dev) =>
    SameLookup(gameState) /\ EmittedHaveNoRecipe(gameState)

\* C26 amended: it does for every catalog in which no recipe has the empty
\* string as its result; the pairs printed have no recipe in either order in
\* every catalog.
C26_SameLookupUnlessEmptyResult ==
  (pc = "cli" /\ flags.dev) =>
    /\ (\A k \in DOMAIN gameState.Recipes : gameState.Recipes[k] # "")
         => SameLookup(gameState)
    /\ EmittedHaveNoRecipe(gameState)

\* A catalog with a recipe stored under one key only is loaded: the
\* enumerator skips the pair and the resolver finds it from the other side,
\* while other pairs are printed.
C26_Witness ==
  /\ pc = "cli"
  /\ flags.dev
  /\ Enumerated
  /\ Len(last.combos) > 0
  /\ "water+fire" \in DOMAIN gameState.Recipes
  /\ "fire+water" \notin DOMAIN gameState.Recipes
  /\ combineElements(gameState, "fire", "water").result = "steam"
  /\ TextOfPair(gameState, "fire", "water") \notin Range(last.combos)

\* The results the table gives for operands taken from S.
Made(S, recipes) ==
  {recipes[k] : k \in DOMAIN recipes \cap {x \o "+" \o y : x \in S, y \in S}}

\* The closure of S under the recipe table.
RECURSIVE Closure(_, _)
Closure(S, recipes) ==
  IF Made(S, recipes) \subseteq S THEN S
  ELSE Closure(S \cup Made(S, recipes), recipes)

\* Every discovered element can be made from the bootstrap set with the
\* recipes of the game state.
InClosure(gs) == Members(gs) \subseteq Closure(Primordial, gs.Recipes)

\* Every element the step added to the list was made by a recipe from two
\* elements the list held before.
AddedByRecipe(gs, gs2) ==
  \A x \in Members(gs2) \ Members(gs) :
    \E a \in Members(gs), b \in Members(gs) :
      x \in StoredResults(gs, a, b)

\* The discovered list keeps to the closure over this step.
StaysInClosure(gs, gs2) ==
  InClosure(gs) =>
    /\ InClosure(gs2)
    /\ (\A k \in DOMAIN gs2.Recipes : gs2.Recipes[k] \in DOMAIN gs2.Elements)
         => Members(gs2) \subseteq DOMAIN gs2.Elements

\* C27: for a player who started from the seeded bootstrap set every member
\* of the discovered list is a bootstrap element or the result of a recipe
\* whose operands were both discovered before; the list is always within the
\* closure of the bootstrap set under the recipe table and, when every recipe
\* result is an element of the catalog, within the catalog.
C27_WithinClosure ==
  [][/\ (Running /\ Running') =>
          /\ AddedByRecipe(gameState, gameState')
          /\ StaysInClosure(gameState, gameState')
     /\ (LocalLoadStep /\ Len(ReadDiscovered(progress)) = 0) =>
          InClosure(gameState')
     /\ \A u \in DOMAIN tgFiles :
          /\ (SessionCreated(u) /\ Len(ReadDiscovered(tgFiles[u])) = 0)
               => InClosure(gameStates'[u])
          /\ (u \in DOMAIN gameStates /\ u \in DOMAIN gameStates') =>
               /\ AddedByRecipe(gameStates[u], gameStates'[u])
               /\ StaysInClosure(gameStates[u], gameStates'[u])]_vars

\* What does hold whatever data/ becomes: every element a step adds was made
\* by a recipe, in use at that step, from two elements discovered before.
OnlyRecipesAdd ==
  [][/\ (Running /\ Running') => AddedByRecipe(gameState, gameState')
     /\ \A u \in DOMAIN gameStates :
          u \in DOMAIN gameStates'
            => AddedByRecipe(gameStates[u], gameStates'[u])]_vars

\* The list names no identifier twice.
NoDuplicates(list) ==
  \A i \in 1..Len(list), j \in 1..Len(list) : list[i] = list[j] => i = j

\* Its length is the number of distinct elements it names.
CountsDistinct(gs) == Len(gs.Discovered) = Cardinality(Members(gs))

\* The step keeps a duplicate-free list duplicate-free, in memory and, when
\* it saved, in the store.
KeepsDistinct(gs, gs2, file2) ==
  NoDuplicates(gs.Discovered) =>
    /\ NoDuplicates(gs2.Discovered)
    /\ CountsDistinct(gs2)
    /\ (last'.saved /\ ~last'.saveErr) =>
         /\ ReadDiscovered(file2) = gs2.Discovered
         /\ NoDuplicates(ReadDiscovered(file2))

\* C28: starting from a seeded list, the discovered list never names an
\* identifier twice, whatever is combined and however often a known recipe is
\* made again: its length is the number of distinct discovered elements, and
\* the list written to the store has no duplicates.
C28_NoDuplicates ==
  [][/\ (LocalLoadStep /\ Len(ReadDiscovered(progress)) = 0) =>
          NoDuplicates(gameState'.Discovered) /\ CountsDistinct(gameState')
     /\ (Running /\ Running' /\ last'.who = 0) =>
          KeepsDistinct(gameState, gameState', progress')
     /\ \A u \in DOMAIN tgFiles :
          /\ (SessionCreated(u) /\ Len(ReadDiscovered(tgFiles[u])) = 0) =>
               /\ NoDuplicates(gameStates'[u].Discovered)
               /\ CountsDistinct(gameStates'[u])
          /\ (u \in DOMAIN gameStates /\ u \in DOMAIN gameStates'
                /\ last'.who = u) =>
               KeepsDistinct(gameStates[u], gameStates'[u], tgFiles'[u])]_vars

\* A seeded player made steam and then made it again: the list still names
\* five elements, and so does the store.
C28_Witness ==
  /\ last.op = "combine"
  /\ last.again
  /\ last.out = "Created"
  /\ last.result = "steam"
  /\ gameState.Discovered = <<"water", "fire", "earth", "wind", "steam">>
  /\ last.saved
  /\ ~last.saveErr
  /\ ReadDiscovered(progress) = gameState.Discovered

\* Chat u is waiting for its first, or for its second element.
WaitsFirst(u) == u \in DOMAIN userStates /\ userStates[u].waitingForFirstElement

WaitsSecond(u) ==
  u \in DOMAIN userStates /\ userStates[u].waitingForSecondElement

\* The step handled a free-text message of chat u with its session at hand.
TextHandled(u, op) ==
  /\ last'.op = op
  /\ last'.who = u
  /\ last'.out # "ErrorLoading"
  /\ u \in DOMAIN gameStates'

\* C29: while a chat waits for the first element, a free-text message that
\* normalizes to an element of its discovered list moves it to waiting for
\* the second element with the normalized element stored, and any other
\* message leaves the conversation state as it was; the two waiting flags
\* are never both set.
C29_FirstStep ==
  [][/\ \A u \in DOMAIN userStates :
          ~(userStates[u].waitingForFirstElement
              /\ userStates[u].waitingForSecondElement)
     /\ \A u \in DOMAIN tgFiles :
          /\ (last'.op = "first" /\ last'.who = u) => WaitsFirst(u)
          /\ (WaitsFirst(u) /\ last'.who = u /\ last'.op \in {"text", "second"})
               => FALSE
          /\ (WaitsFirst(u) /\ TextHandled(u, "first")) =>
               /\ last'.a \in {normalizeElementName(t) : t \in ChatTexts}
               /\ IF Known(gameStates'[u], last'.a)
                    THEN userStates'[u] =
                           [waitingForFirstElement |-> FALSE,
                            waitingForSecondElement |-> TRUE,
                            firstElement |-> last'.a]
                    ELSE userStates' = userStates]_vars

\* The chat typed <tab>FIRE<blank> as its first element and now waits for
\* the second with fire stored.
C29_Witness ==
  /\ last.op = "first"
  /\ last.a = "fire"
  /\ last.out = "EnterSecond"
  /\ last.who \in DOMAIN userStates
  /\ userStates[last.who].waitingForSecondElement
  /\ ~userStates[last.who].waitingForFirstElement
  /\ userStates[last.who].firstElement = "fire"

\* C30: while a chat waits for the second element, a discovered second
\* element ends the attempt, recipe or not, by deleting the chat's
\* conversation state, and free-text messages are then ignored until the
\* chat chooses "Combine Elements" again; an undiscovered second element
\* leaves the chat waiting for the second element with the same first
\* element.
C30_SecondStep ==
  [][\A u \in DOMAIN tgFiles :
       /\ (last'.op = "second" /\ last'.who = u) => WaitsSecond(u)
       /\ (WaitsSecond(u) /\ TextHandled(u, "second")) =>
            /\ last'.a = userStates[u].firstElement
            /\ IF Known(gameStates[u], last'.b)
                 THEN /\ u \notin DOMAIN userStates'
                      /\ last'.out \in {"Created", "NoRecipe"}
                 ELSE /\ userStates' = userStates
                      /\ last'.out = "NotDiscovered"
       /\ (u \notin DOMAIN userStates /\ last'.who = u
             /\ last'.op \in {"text", "first", "second"})
            => /\ last'.op = "text"
               /\ last'.out = "Ignored"
               /\ UNCHANGED <<userStates, gameStates, tgFiles>>
       /\ (u \notin DOMAIN userStates /\ u \in DOMAIN userStates')
            => last'.op = "combineMenu" /\ last'.who = u]_vars

\* A chat that made steam sent another text and was ignored.
C30_Witness ==
  /\ last.op = "text"
  /\ last.out = "Ignored"
  /\ last.who \notin DOMAIN userStates
  /\ last.who \in DOMAIN gameStates
  /\ Known(gameStates[last.who], "steam")
  /\ tgFiles[last.who].status = "ok"

\* The step answered chat u that its game state could not be loaded.
CreationFailed(u) == last'.who = u /\ last'.out = "ErrorLoading"

\* The step served chat u from its session.
Served(u) ==
  /\ last'.who = u
  /\ last'.op \in {"combineMenu", "show", "first", "second"}
  /\ last'.out # "ErrorLoading"

\* C31: a failed creation of a session caches nothing: when getUserGameState
\* returns an error for a chat, the cache has no entry for the chat
\* afterwards and is otherwise as it was, the call leaves the chat's
\* conversation state as it was, and the next access of the chat attempts
\* the creation again.
C31_FailedCreationCachesNothing ==
  [][\A u \in DOMAIN tgFiles :
       /\ CreationFailed(u) =>
            /\ u \notin DOMAIN gameStates
            /\ gameStates' = gameStates
            /\ tgFiles' = tgFiles
            /\ userStates' =
                 IF last'.op = "combineMenu"
                   THEN MapSet(userStates, u, UserStateOf(TRUE, FALSE, ""))
                   ELSE userStates
       /\ u \notin DOMAIN gameStates =>
            \A env \in SessionEnvs(u) :
              LET r == getUserGameState(u, env)
              IN IF r.err # ""
                   THEN r.cache = gameStates /\ r.gs = NoGameState
                             /\ r.file = tgFiles[u]
                   ELSE r.cache = MapSet(gameStates, u, r.gs)
       /\ (u \notin DOMAIN gameStates /\ Served(u)) =>
            /\ SessionCreated(u)
            /\ \A y \in DOMAIN gameStates : gameStates'[y] = gameStates[y]]_vars

\* The creation of the session failed when the chat chose "Combine
\* Elements" and was done by the handler of the chat's first element.
C31_Witness ==
  /\ last.op = "first"
  /\ last.saved
  /\ last.who \in DOMAIN gameStates
  /\ last.who \in DOMAIN userStates

\* The API and the resolver agree on the pair: success exactly when the
\* resolver returns a result, and the name answered is that of the result.
SameAnswer(gs, a, b) ==
  LET resp == handleCombineAPI(gs, "GET", a, b)
      c == combineElements(gs, a, b)
  IN /\ resp.Success <=> c.result # ""
     /\ resp.Success => resp.Result = ElementAt(gs, c.result).Name

\* The GET request of this step was answered as the resolver would.
AnsweredAsResolver ==
  LET c == combineElements(gameState, last'.a, last'.b)
  IN /\ last'.out = "Success" <=> c.result # ""
     /\ last'.out = "Success"
          => last'.result = ElementAt(gameState, c.result).Name

\* C32 as stated: for every recipe table and every pair of discovered
\* elements the API lookup succeeds exactly when combineElements returns a
\* result, and both denote the same element, the API by its display name and
\* the resolver by its identifier.
C32_ApiAgrees ==
  [][/\ (pc = "api" /\ last.op = "load") =>
          \A a \in Members(gameState), b \in Members(gameState) :
            SameAnswer(gameState, a, b)
     /\ (last'.op = "api" /\ last'.out # "MethodNotAllowed"
           /\ Known(gameState, last'.a) /\ Known(gameState, last'.b))
          => AnsweredAsResolver]_vars

\* C32 amended: they agree for every recipe table without an empty result
\* and every pair of discovered elements written in normal form.
C32_ApiAgreesOnNormalForms ==
  [][/\ (pc = "api" /\ last.op = "load"
           /\ \A k \in DOMAIN gameState.Recipes : gameState.Recipes[k] # "") =>
          \A a \in Members(gameState), b \in Members(gameState) :
            (normalizeElementName(a) = a /\ normalizeElementName(b) = b)
              => SameAnswer(gameState, a, b)
     /\ (last'.op = "api" /\ last'.out # "MethodNotAllowed"
           /\ Known(gameState, last'.a) /\ Known(gameState, last'.b)
           /\ \A k \in DOMAIN gameState.Recipes : gameState.Recipes[k] # "")
          => AnsweredAsResolver]_vars

\* The server answered Steam for fire and water, both discovered, which the
\* resolver finds under the reverse key.
C32_Witness ==
  /\ last.op = "api"
  /\ last.a = "fire"
  /\ last.b = "water"
  /\ last.out = "Success"
  /\ last.result = "Steam"
  /\ Known(gameState, "fire")
  /\ Known(gameState, "water")
  /\ combineElements(gameState, "fire", "water").result = "steam"

====
